---- MODULE Spec2Model ----
(***************************************************************************)
(* Credential and data-access core of the ESG Pathfinder Streamlit apps.   *)
(*                                                                         *)
(*   auth.py            SimpleAuthenticator: password hashing, failed-     *)
(*                      login lockout, session timeout, require_auth       *)
(*   cloud_app.py       login_user / logout over the SQLite users table    *)
(*   api_integration.py hybrid_data_loader, NextJSAPIClient._make_request  *)
(*   database.py        SecureDatabase.execute_query / execute_non_query,  *)
(*                      create_project, update_project                     *)
(*   error_handling.py  handle_error / display_error                       *)
(*   validation.py      InputValidator and the forms that write data       *)
(*                                                                         *)
(* Time is counted in minutes.  An Optional value is a set with at most    *)
(* one element: None is {} and a returned value v is {v}.                  *)
(***************************************************************************)
EXTENDS Integers, Sequences, FiniteSets, TLC

VARIABLES
    now,          \* wall clock: datetime.now() / datetime('now')
    db_users,     \* cloud_app.py: rows of the SQLite table users, by username
    last,         \* history: the most recent finished authentication attempt
    streak,       \* history: consecutive wrong-password attempts, per app
    session_state,\* auth.py app: st.session_state (authenticated, user, login_time)
    rerun_requested, \* auth.py app: st.rerun() was called, the script runs again
    run,          \* history: outcome of the most recent script run of main()
    cloud_session,\* cloud_app.py app: st.session_state (user, logged_in, UI keys)
    logged_out,   \* history: which logout ran last, and on which state
    lpc,          \* hybrid loader: position of the one in-flight invocation
    api_integration_enabled, \* st.session_state.api_integration_enabled
    fallback_local,          \* the fallback_local argument the loader closed over
    remote_calls, \* history: calls of api_loader in this invocation
    local_calls,  \* history: calls of local_loader in this invocation
    ltrace,       \* history: accessor events of this invocation, in order
    lresult,      \* what the loader handed to its caller
    invocations,  \* number of loader invocations so far
    cpc,          \* concurrent login_user calls: position of each
    crow,         \* concurrent login_user calls: the row each one fetched
    apc,          \* concurrent authenticate calls: position of each
    ausers,       \* concurrent authenticate calls: each call's own users dict
    hout,         \* history: the most recent hash-then-verify exercise
    qpc,          \* query layer: position of the one call in progress
    qcall,        \* query layer: the call in progress (method, statement)
                  \* and, as history, the step at which it failed
    checked_out,  \* connections acquired from the engine and not yet closed
    stored,       \* committed contents of the database
    pending,      \* uncommitted changes of the open connection
    qresult,      \* what the call handed to its caller
    qlog,         \* messages the call wrote to the log
    shown,        \* texts the page showed for the call's failure
    qbefore,      \* history: stored, when the call started
    qcalls,       \* number of calls so far
    fout,         \* history: the most recent form submission and its query
    vout,         \* history: the most recent validator call and its result
    selected_framework,\* cloud_app.py: st.session_state.selected_framework
    sout,         \* history: the most recent statement handed to the backend
    auth_token,   \* api_integration.py: st.session_state.auth_token, per browser session
    authorization,\* api_client.session.headers['Authorization'], one for all sessions
    rpc,          \* API requests: position of each session's request
    rcall,        \* API requests: endpoint and token of the request in progress
    rlast,        \* history: the most recent request that was sent, and its outcome
    invalidated,  \* history: tokens a 401 removed since the session's last login
    issued,       \* number of tokens issued so far
    database_url, \* database.py: os.getenv('DATABASE_URL'), which selects the pool class
    ppc,          \* concurrent create_project calls: position of each
    pconn,        \* concurrent create_project calls: the backend connection each holds
    uncommitted,  \* rows inserted on each backend connection and not yet committed
    projects,     \* committed rows of the table projects, as <<rowid, inserting call>>
    last_insert_rowid,\* SQLite: rowid of the most recent INSERT on each backend connection
    pinserted,    \* history: the rowid each call's INSERT produced
    preturned,    \* what each create_project call handed to its caller
    tapp,         \* a run of login attempts: the app they are made against
    tusers,       \* a run of login attempts: cloud_app.py's users table
    outcomes      \* history: the outcome of each attempt of the run, in order

authVars == <<now, db_users, last, streak>>
sessVars == <<session_state, rerun_requested, run>>
outVars  == <<cloud_session, logged_out>>
loadVars == <<lpc, api_integration_enabled, fallback_local, remote_calls,
              local_calls, ltrace, lresult, invocations>>
concVars == <<cpc, crow, apc, ausers>>
hashVars == <<hout>>
queryVars == <<qpc, qcall, checked_out, stored, pending, qresult, qlog, shown,
               qbefore, qcalls>>
formVars == <<fout>>
validVars == <<vout>>
stmtVars == <<selected_framework, sout>>
apiVars == <<auth_token, authorization, rpc, rcall, rlast, invalidated, issued>>
poolVars == <<database_url, ppc, pconn, uncommitted, projects,
              last_insert_rowid, pinserted, preturned>>
tryVars == <<tapp, tusers, outcomes>>
vars == <<authVars, sessVars, outVars, loadVars, concVars, hashVars, queryVars,
          formVars, validVars, stmtVars, apiVars, poolVars, tryVars>>

\* what the steps of one part of the program leave alone
FirstVars == <<authVars, sessVars, outVars, loadVars, concVars>>
OtherVars == <<hashVars, queryVars, formVars, validVars, stmtVars, apiVars,
               poolVars, tryVars>>
AuthFrame == UNCHANGED <<sessVars, outVars, loadVars, concVars, OtherVars>>
SessFrame == UNCHANGED <<db_users, last, streak, outVars, loadVars, concVars,
                         OtherVars>>
AnyFrame == UNCHANGED <<db_users, last, streak, loadVars, concVars, OtherVars>>
LoadFrame == UNCHANGED <<authVars, sessVars, outVars, concVars, OtherVars>>
ConcFrame == UNCHANGED <<now, last, streak, sessVars, outVars, loadVars,
                         OtherVars>>
HashFrame == UNCHANGED <<FirstVars, queryVars, formVars, validVars, stmtVars,
                         apiVars, poolVars, tryVars>>
QueryFrame == UNCHANGED <<FirstVars, hashVars, formVars, validVars, stmtVars,
                          apiVars, poolVars, tryVars>>
FormFrame == UNCHANGED <<FirstVars, hashVars, queryVars, validVars, stmtVars,
                         apiVars, poolVars, tryVars>>
ValidFrame == UNCHANGED <<FirstVars, hashVars, queryVars, formVars, stmtVars,
                          apiVars, poolVars, tryVars>>
StmtFrame == UNCHANGED <<FirstVars, hashVars, queryVars, formVars, validVars,
                         apiVars, poolVars, tryVars>>
ApiFrame == UNCHANGED <<FirstVars, hashVars, queryVars, formVars, validVars,
                        stmtVars, poolVars, tryVars>>
PoolFrame == UNCHANGED <<FirstVars, hashVars, queryVars, formVars, validVars,
                         stmtVars, apiVars, tryVars>>
TryFrame == UNCHANGED <<FirstVars, hashVars, queryVars, formVars, validVars,
                        stmtVars, apiVars, poolVars>>

----------------------------------------------------------------------------
(* Bounds of the model *)

MaxTime == 16
NumSalts == 2
MaxSessionTime == 122
MaxInvocations == 4
NumProcs == 5
MaxPwLen == 2
MaxCalls == 3
MaxPad == 2
Slack == 2
MaxKeys == 3
NumSessions == 2
MaxTokens == 2
NumCallers == 2
MaxAttempts == 6

(* Program constants *)

max_login_attempts == 3
lockout_duration == 15
session_timeout == 120
SqlLockAfter == 2
SqlLockMinutes == 15
StreakCap == 4
max_name_length == 255
min_id_length == 10

NULL == -1
None == {}
Some(v) == {v}

Usernames == {"admin"}
AttemptNames == {"admin", "ghost"}
\* a Python str is the sequence of its code points
AdminPassword == <<97, 100, 109, 105, 110, 49, 50, 51>>      \* "admin123"
WrongPassword == <<119, 114, 111, 110, 103>>                 \* "wrong"
Passwords == {AdminPassword, WrongPassword}
Salts == 1..NumSalts
CloudSalt == "esg_pathfinder_salt"

----------------------------------------------------------------------------
(* auth.py: SimpleAuthenticator *)

\* password.encode('utf-8'), one code point (below 65536) at a time
Utf8Char(c) ==
    IF c < 128 THEN <<c>>
    ELSE IF c < 2048 THEN <<192 + (c \div 64), 128 + (c % 64)>>
    ELSE <<224 + (c \div 4096), 128 + ((c \div 64) % 64), 128 + (c % 64)>>

RECURSIVE encode(_)
encode(s) == IF s = <<>> THEN <<>> ELSE Utf8Char(Head(s)) \o encode(Tail(s))

\* HMAC-SHA256 works on a key of one block: a longer key is replaced by its
\* SHA-256 digest (a symbolic term here), and the key is padded with zero
\* bytes to the block size.
HmacBlockSize == 64
HmacKey(bytes) ==
    IF Len(bytes) > HmacBlockSize
    THEN [sha256_of |-> bytes, block |-> <<>>]
    ELSE [sha256_of |-> <<>>,
          block |-> bytes \o [i \in 1..(HmacBlockSize - Len(bytes)) |-> 0]]

\* hashlib.pbkdf2_hmac('sha256', password.encode('utf-8'), salt, 100000).hex():
\* a digest is the symbolic term of the call's inputs.
Pbkdf2(password, salt) ==
    [kdf |-> "pbkdf2_hmac_sha256", iterations |-> 100000,
     password |-> password, salt |-> salt]

\* the HMAC key of every password of the model, computed once
PwChars == {0, 97, 233}          \* NUL, "a", e-acute (two bytes in UTF-8)
HashPasswords == UNION {[1..n -> PwChars] : n \in 0..MaxPwLen}
KeyOfPassword ==
    [p \in Passwords \cup HashPasswords |-> HmacKey(encode(p))]

\* Equality of two digests as strings.  The password is the key of every
\* HMAC of the derivation and the salt its first message, so two digests
\* are the same string exactly when HMAC key and salt are the same.
DigestEqual(a, b) ==
    /\ a.salt = b.salt
    /\ \/ a.password = b.password
       \/ KeyOfPassword[a.password] = KeyOfPassword[b.password]

hash_password(password, salt) == <<Pbkdf2(password, salt), salt>>

\* hmac.compare_digest(password_hash, stored_hash)
verify_password(password, stored_hash, salt) ==
    DigestEqual(hash_password(password, salt)[1], stored_hash)

\* the table a get_users call builds, for each salt it can draw
BuiltUsers ==
    [salt \in Salts |->
        [u \in Usernames |->
            [email |-> "admin@esg-pathfinder.com",
             name |-> "Administrator",
             password_hash |-> hash_password(AdminPassword, salt)[1],
             salt |-> salt,
             role |-> "admin",
             failed_attempts |-> 0,
             locked_until |-> NULL]]]

\* get_users builds the table anew on every call; salt is the os.urandom
\* value drawn by that call.
get_users(salt) == BuiltUsers[salt]

\* is_account_locked reads a table it gets from its own get_users call.
is_account_locked(username, salt, t) ==
    LET users == get_users(salt) IN
    IF username \notin DOMAIN users \/ users[username].locked_until = NULL
    THEN FALSE
    ELSE t < users[username].locked_until

\* record_failed_attempt: the table after the call's assignments.  The table
\* is local to the call and dropped on return.
record_failed_attempt(username, salt, t) ==
    LET users == get_users(salt) IN
    IF username \notin DOMAIN users THEN users
    ELSE LET n == users[username].failed_attempts + 1 IN
         [users EXCEPT ![username].failed_attempts = n,
                       ![username].locked_until =
                           IF n >= max_login_attempts THEN t + lockout_duration
                           ELSE @]

reset_failed_attempts(username, salt) ==
    LET users == get_users(salt) IN
    IF username \notin DOMAIN users THEN users
    ELSE [users EXCEPT ![username].failed_attempts = 0,
                       ![username].locked_until = NULL]

\* as authenticate_result, with a lookup that reports the missing identity
authenticate_result_names_unknown(username, password, s1, s2, t) ==
    LET users == get_users(s1) IN
    IF username \notin DOMAIN users THEN Some([error |-> "unknown user"])
    ELSE IF is_account_locked(username, s2, t) THEN None
    ELSE IF verify_password(password, users[username].password_hash,
                            users[username].salt)
    THEN Some([username |-> username,
               email |-> users[username].email,
               name |-> users[username].name,
               role |-> users[username].role])
    ELSE None

\* Return value of authenticate(username, password) at time t; s1 and s2 are
\* the salts of its get_users call and of is_account_locked's.
authenticate_result(username, password, s1, s2, t) ==
    LET users == get_users(s1) IN
    IF username \notin DOMAIN users THEN None
    ELSE IF is_account_locked(username, s2, t) THEN None
    ELSE IF verify_password(password, users[username].password_hash,
                            users[username].salt)
    THEN Some([username |-> username,
               email |-> users[username].email,
               name |-> users[username].name,
               role |-> users[username].role])
    ELSE None

\* The credential state of the auth.py app as any later call sees it.
AuthCred(username) == get_users(1)[username]

----------------------------------------------------------------------------
(* cloud_app.py: login_user over the users table *)

hash_password_cloud(password) == Pbkdf2(password, CloudSalt)

\* hash_password(password) == password_hash
verify_password_cloud(password, password_hash) ==
    DigestEqual(hash_password_cloud(password), password_hash)

\* as SelectUnlocked, without the lockout condition of the WHERE clause
SelectAnyRow(db, username, t) ==
    IF username \in DOMAIN db THEN Some(db[username]) ELSE None

\* SELECT * FROM users WHERE username = ? AND
\*   (locked_until IS NULL OR locked_until < datetime('now'))
SelectUnlocked(db, username, t) ==
    IF username \in DOMAIN db
       /\ (db[username].locked_until = NULL \/ db[username].locked_until < t)
    THEN Some(db[username])
    ELSE None

\* as UpdateFailed, locking one failure earlier
UpdateFailed_locks_early(db, username, t) ==
    IF username \notin DOMAIN db THEN db
    ELSE [db EXCEPT ![username].failed_attempts = @ + 1,
                    ![username].locked_until =
                        IF db[username].failed_attempts >= SqlLockAfter - 1
                        THEN t + SqlLockMinutes ELSE NULL]

\* UPDATE users SET failed_attempts = failed_attempts + 1, locked_until =
\*   CASE WHEN failed_attempts >= 2 THEN datetime('now','+15 minutes')
\*   ELSE NULL END WHERE username = ?
\* (the right-hand sides read the row as it was before the statement)
UpdateFailed(db, username, t) ==
    IF username \notin DOMAIN db THEN db
    ELSE [db EXCEPT ![username].failed_attempts = @ + 1,
                    ![username].locked_until =
                        IF db[username].failed_attempts >= SqlLockAfter
                        THEN t + SqlLockMinutes ELSE NULL]

\* as UpdateSucceeded, without the reset of failed_attempts
UpdateSucceeded_keeps_count(db, username, t) ==
    IF username \notin DOMAIN db THEN db
    ELSE [db EXCEPT ![username].locked_until = NULL,
                    ![username].last_login = t]

\* UPDATE users SET failed_attempts = 0, locked_until = NULL,
\*   last_login = datetime('now') WHERE username = ?
UpdateSucceeded(db, username, t) ==
    IF username \notin DOMAIN db THEN db
    ELSE [db EXCEPT ![username].failed_attempts = 0,
                    ![username].locked_until = NULL,
                    ![username].last_login = t]

\* create_default_admin on an empty users table
InitialUsers ==
    [u \in Usernames |->
        [username |-> u,
         email |-> "admin@esg-pathfinder.com",
         password_hash |-> hash_password_cloud(AdminPassword),
         role |-> "admin",
         last_login |-> NULL,
         failed_attempts |-> 0,
         locked_until |-> NULL]]

login_user_result(db, username, password, t) ==
    LET user == SelectUnlocked(db, username, t) IN
    IF user = None THEN None
    ELSE LET row == CHOOSE r \in user : TRUE IN
         IF ~verify_password_cloud(password, row.password_hash) THEN None
         ELSE Some(row)

login_user_db(db, username, password, t) ==
    LET user == SelectUnlocked(db, username, t) IN
    IF user = None THEN db
    ELSE LET row == CHOOSE r \in user : TRUE IN
         IF ~verify_password_cloud(password, row.password_hash)
         THEN UpdateFailed(db, username, t)
         ELSE UpdateSucceeded(db, username, t)

----------------------------------------------------------------------------
(* Sequential authentication: one attempt at a time, against either app *)

NoAttempt ==
    [app |-> "none", username |-> "none", password |-> <<>>, at |-> 0,
     result |-> None, pre_fa |-> 0, pre_lu |-> NULL,
     local_fa |-> 0, local_lu |-> NULL]

Bump(n) == IF n < StreakCap THEN n + 1 ELSE StreakCap

\* consecutive failed attempts for a known identity; a success ends the run
NextStreak(app, username, password, result) ==
    IF username \notin Usernames THEN streak
    ELSE IF result # None THEN [streak EXCEPT ![app] = 0]
    ELSE IF password # AdminPassword THEN [streak EXCEPT ![app] = Bump(@)]
    ELSE streak

AuthInit ==
    /\ now = 0
    /\ db_users = InitialUsers
    /\ last = NoAttempt
    /\ streak = [a \in {"auth", "cloud"} |-> 0]

\* SimpleAuthenticator.authenticate(username, password), with the calls it
\* makes to reset_failed_attempts / record_failed_attempt
authenticate(username, password) ==
    \E s1 \in Salts, s2 \in Salts, s3 \in Salts :
        LET result == authenticate_result(username, password, s1, s2, now)
            locked == is_account_locked(username, s2, now)
            local  == IF username \notin Usernames \/ locked THEN get_users(s1)
                      ELSE IF result # None
                           THEN reset_failed_attempts(username, s3)
                           ELSE record_failed_attempt(username, s3, now)
            known  == username \in Usernames
        IN  /\ last' = [app |-> "auth", username |-> username,
                        password |-> password, at |-> now, result |-> result,
                        pre_fa |-> IF known THEN AuthCred(username).failed_attempts ELSE 0,
                        pre_lu |-> IF known THEN AuthCred(username).locked_until ELSE NULL,
                        local_fa |-> IF known THEN local[username].failed_attempts ELSE 0,
                        local_lu |-> IF known THEN local[username].locked_until ELSE NULL]
            /\ streak' = NextStreak("auth", username, password, result)
            /\ UNCHANGED <<now, db_users>>
            /\ AuthFrame

\* cloud_app.login_user(username, password)
login_user(username, password) ==
    LET result == login_user_result(db_users, username, password, now)
        db     == login_user_db(db_users, username, password, now)
        known  == username \in DOMAIN db_users
    IN  /\ db_users' = db
        /\ last' = [app |-> "cloud", username |-> username,
                    password |-> password, at |-> now, result |-> result,
                    pre_fa |-> IF known THEN db_users[username].failed_attempts ELSE 0,
                    pre_lu |-> IF known THEN db_users[username].locked_until ELSE NULL,
                    local_fa |-> IF known THEN db[username].failed_attempts ELSE 0,
                    local_lu |-> IF known THEN db[username].locked_until ELSE NULL]
        /\ streak' = NextStreak("cloud", username, password, result)
        /\ UNCHANGED now
        /\ AuthFrame

\* attempts are made at these times: at the start, and around the end of a
\* lockout that began then
AttemptTimes == {0, 1} \cup lockout_duration..MaxTime

Tick ==
    /\ \E t \in AttemptTimes : t > now /\ now' = t
    /\ UNCHANGED <<db_users, last, streak>>
    /\ AuthFrame

AuthNext ==
    \/ \E u \in AttemptNames, p \in Passwords : authenticate(u, p)
    \/ \E u \in AttemptNames, p \in Passwords : login_user(u, p)
    \/ Tick

\* The credential record of an identity, as the app persists it
Cred(app, username) ==
    IF app = "cloud" THEN db_users[username] ELSE AuthCred(username)

----------------------------------------------------------------------------
(* auth.py: session handling over st.session_state.  A session state is a  *)
(* function from the keys that are present to their values; login_time is  *)
(* <<"datetime", t>> or, as an ISO string, <<"str", t>>.                    *)

AuthKeys == {"authenticated", "user", "login_time"}
EmptySession == [k \in {} |-> TRUE]
Without(ss, keys) == [k \in (DOMAIN ss) \ keys |-> ss[k]]
Updated(ss, new) ==
    [k \in (DOMAIN ss) \cup (DOMAIN new) |->
        IF k \in DOMAIN new THEN new[k] ELSE ss[k]]

\* datetime.fromisoformat on a stored string; a datetime is taken as it is
fromisoformat(v) == IF v[1] = "str" THEN <<"datetime", v[2]>> ELSE v

\* as check_session_timeout, with <= for <
check_session_timeout_inclusive(ss, t) ==
    IF "login_time" \notin DOMAIN ss THEN FALSE
    ELSE t - fromisoformat(ss["login_time"])[2] <= session_timeout

check_session_timeout(ss, t) ==
    IF "login_time" \notin DOMAIN ss THEN FALSE
    ELSE t - fromisoformat(ss["login_time"])[2] < session_timeout

\* as logout, with login_time left out of keys_to_clear
logout_keeps_login_time(ss) == Without(ss, {"authenticated", "user"})

\* logout: the session state after the deletions (st.rerun() follows)
logout(ss) == Without(ss, {"authenticated", "user", "login_time"})

\* st.session_state.get('authenticated', False)
IsAuthenticated(ss) ==
    "authenticated" \in DOMAIN ss /\ ss["authenticated"] = TRUE

\* as login_form, storing no login_time
login_form_without_login_time(ss, username, password, s1, s2, t) ==
    IF username = "" \/ password = <<>> THEN ss
    ELSE LET user == authenticate_result(username, password, s1, s2, t) IN
         IF user = None THEN ss
         ELSE Updated(ss, [authenticated |-> TRUE,
                           user |-> CHOOSE x \in user : TRUE])

\* login_form with the form submitted: the session state it leaves
login_form(ss, username, password, s1, s2, t) ==
    IF username = "" \/ password = <<>> THEN ss
    ELSE LET user == authenticate_result(username, password, s1, s2, t) IN
         IF user = None THEN ss
         ELSE Updated(ss, [authenticated |-> TRUE,
                           user |-> CHOOSE x \in user : TRUE,
                           login_time |-> <<"datetime", t>>])

\* login_form with the form submitted: the st.error text it shows ("" when
\* it shows none); s3 and s4 are the salts of the get_users call and of the
\* is_account_locked call of the failure branch
login_form_error(username, password, s1, s2, s3, s4, t) ==
    IF username = "" \/ password = <<>>
    THEN "Please enter both username and password"
    ELSE IF authenticate_result(username, password, s1, s2, t) # None THEN ""
    ELSE IF username \in DOMAIN get_users(s3)
            /\ is_account_locked(username, s4, t)
    THEN "Account locked due to too many failed attempts. Please try again later."
    ELSE "Invalid username or password"

NoInput == [kind |-> "none", username |-> "", password |-> <<>>]
LogoutClick == [kind |-> "logout", username |-> "", password |-> <<>>]
Submit(u, p) == [kind |-> "submit", username |-> u, password |-> p]

\* as main_outcome, with require_auth returning after the timeout logout
\* instead of restarting the script
main_outcome_no_restart(ss, input, s1, s2, t) ==
    IF ~IsAuthenticated(ss)
    THEN IF input.kind = "submit"
            /\ IsAuthenticated(login_form(ss, input.username, input.password, s1, s2, t))
         THEN "login_rerun" ELSE "login_form"
    ELSE IF ~check_session_timeout(ss, t) THEN "page"
    ELSE IF input.kind = "logout" THEN "logout_rerun"
    ELSE "page"

\* st.stop() and st.rerun() end the script run where they are called: they
\* raise Streamlit's script-control exceptions, which are not Exception
\* subclasses, so the handler around main() does not catch them.
\* How one run of main() ends:
\*   "login_form"    require_auth showed the login form and called st.stop()
\*   "login_rerun"   login_form stored the session and called st.rerun()
\*   "expired_rerun" the session had timed out: logout(), st.rerun()
\*   "logout_rerun"  the Logout button was pressed: logout(), st.rerun()
\*   "page"          require_auth returned and main() dispatched a page
main_outcome(ss, input, s1, s2, t) ==
    IF ~IsAuthenticated(ss)
    THEN IF input.kind = "submit"
            /\ IsAuthenticated(login_form(ss, input.username, input.password, s1, s2, t))
         THEN "login_rerun" ELSE "login_form"
    ELSE IF ~check_session_timeout(ss, t) THEN "expired_rerun"
    ELSE IF input.kind = "logout" THEN "logout_rerun"
    ELSE "page"

main_session(ss, input, s1, s2, t) ==
    IF ~IsAuthenticated(ss)
    THEN IF input.kind = "submit"
         THEN login_form(ss, input.username, input.password, s1, s2, t)
         ELSE ss
    ELSE IF ~check_session_timeout(ss, t) THEN logout(ss)
    ELSE IF input.kind = "logout" THEN logout(ss)
    ELSE ss

NoRun ==
    [outcome |-> "none", at |-> 0, entry_auth |-> FALSE,
     entry_login |-> <<"absent", 0>>, checked |-> FALSE, valid |-> FALSE,
     input |-> NoInput, error |-> ""]

\* streamlit_app.py main(): one script run at the current time
main(input) ==
    \E s1 \in Salts, s2 \in Salts, s3 \in Salts, s4 \in Salts :
        LET outcome == main_outcome(session_state, input, s1, s2, now) IN
        /\ session_state' = main_session(session_state, input, s1, s2, now)
        /\ rerun_requested' = (outcome \in {"login_rerun", "expired_rerun", "logout_rerun"})
        /\ run' = [outcome |-> outcome, at |-> now,
                   entry_auth |-> IsAuthenticated(session_state),
                   entry_login |-> IF "login_time" \in DOMAIN session_state
                                   THEN session_state["login_time"]
                                   ELSE <<"absent", 0>>,
                   checked |-> IsAuthenticated(session_state),
                   valid |-> IsAuthenticated(session_state)
                             /\ check_session_timeout(session_state, now),
                   input |-> input,
                   error |-> IF ~IsAuthenticated(session_state)
                                /\ input.kind = "submit"
                             THEN login_form_error(input.username, input.password,
                                                   s1, s2, s3, s4, now)
                             ELSE ""]

SessInit ==
    /\ session_state = EmptySession
    /\ rerun_requested = FALSE
    /\ run = NoRun

\* the browser loads or refreshes the page, or a page widget is used
View ==
    /\ ~rerun_requested
    /\ main(NoInput)
    /\ UNCHANGED now
    /\ SessFrame

\* the login form, shown by the previous run, is submitted
SubmitLogin(u, p) ==
    /\ ~rerun_requested
    /\ run.outcome = "login_form"
    /\ main(Submit(u, p))
    /\ UNCHANGED now
    /\ SessFrame

\* the Logout button, shown by the previous run, is pressed
ClickLogout ==
    /\ ~rerun_requested
    /\ run.outcome = "page"
    /\ main(LogoutClick)
    /\ UNCHANGED now
    /\ SessFrame

\* st.rerun(): the script runs again with no widget event
Rerun ==
    /\ rerun_requested
    /\ main(NoInput)
    /\ UNCHANGED now
    /\ SessFrame

\* accesses are made at these times
TimePoints == {0, 1} \cup 119..MaxSessionTime

SessionTick ==
    /\ \E t \in TimePoints : t > now /\ now' = t
    /\ UNCHANGED <<session_state, rerun_requested, run>>
    /\ SessFrame

SessionNext ==
    \/ View
    \/ \E u \in AttemptNames \cup {""}, p \in Passwords : SubmitLogin(u, p)
    \/ ClickLogout
    \/ Rerun
    \/ SessionTick

----------------------------------------------------------------------------
(* cloud_app.py: logout over its own st.session_state *)

CloudLogoutKeys ==
    {"user", "logged_in", "show_create_form", "show_edit_form",
     "selected_project", "selected_framework", "selected_project_id"}

cloud_logout(cs) == Without(cs, CloudLogoutKeys)

----------------------------------------------------------------------------
(* check_session_timeout and the two logouts applied to any session state  *)
(* a script can find in st.session_state, fully or partly populated.       *)

PublicAdmin ==
    [username |-> "admin", email |-> "admin@esg-pathfinder.com",
     name |-> "Administrator", role |-> "admin"]

AnyAuthSessions ==
    LET a == {EmptySession} \cup {[authenticated |-> b] : b \in BOOLEAN}
        u == {EmptySession, [user |-> PublicAdmin]}
        l == {EmptySession} \cup
             {[login_time |-> <<tag, t>>] : tag \in {"datetime", "str"}, t \in 0..1}
        n == {EmptySession, [navigation |-> "Dashboard"]}
    IN  {Updated(Updated(Updated(x, y), z), w) : x \in a, y \in u, z \in l, w \in n}

AnyCloudSessions ==
    {[k \in K |-> IF k = "user" THEN InitialUsers["admin"] ELSE TRUE] :
        K \in SUBSET (CloudLogoutKeys \cup {"login_username"})}

NoLogout == [app |-> "none", before |-> {}]

OutInit ==
    /\ cloud_session = EmptySession
    /\ logged_out = NoLogout

AnyInit ==
    /\ session_state \in AnyAuthSessions
    /\ cloud_session \in AnyCloudSessions
    /\ session_state = EmptySession \/ cloud_session = EmptySession
    /\ rerun_requested = FALSE
    /\ run = NoRun
    /\ logged_out = NoLogout

\* check_session_timeout() called on the current state
CheckTimeout ==
    /\ run' = [outcome |-> "check", at |-> now,
               entry_auth |-> IsAuthenticated(session_state),
               entry_login |-> IF "login_time" \in DOMAIN session_state
                               THEN session_state["login_time"]
                               ELSE <<"absent", 0>>,
               checked |-> TRUE,
               valid |-> check_session_timeout(session_state, now)]
    /\ UNCHANGED <<now, session_state, cloud_session, rerun_requested, logged_out>>
    /\ AnyFrame

\* auth.logout()
Logout ==
    /\ session_state' = logout(session_state)
    /\ rerun_requested' = TRUE
    /\ logged_out' = [app |-> "auth", before |-> DOMAIN session_state]
    /\ UNCHANGED <<now, cloud_session, run>>
    /\ AnyFrame

\* cloud_app.logout()
CloudLogout ==
    /\ cloud_session' = cloud_logout(cloud_session)
    /\ rerun_requested' = TRUE
    /\ logged_out' = [app |-> "cloud", before |-> DOMAIN cloud_session]
    /\ UNCHANGED <<now, session_state, run>>
    /\ AnyFrame

AnyTick ==
    /\ \E t \in TimePoints : t > now /\ now' = t
    /\ UNCHANGED <<session_state, cloud_session, rerun_requested, run, logged_out>>
    /\ AnyFrame

AnyNext ==
    \/ CheckTimeout
    \/ Logout
    \/ CloudLogout
    \/ AnyTick

----------------------------------------------------------------------------
(* api_integration.py: hybrid_data_loader.  One invocation of loader() is   *)
(* in flight at a time; the accessors are calls that return or raise.       *)

RemoteData == {"api_rows_a", "api_rows_b"}
LocalData == {"local_rows", "[]"}
RemoteErrors == {"APIError_503", "APIError_408", "APIError_401"}
LocalErrors == {"sqlite_error"}

NoResult == [kind |-> "none", value |-> "none"]
Return(v) == [kind |-> "return", value |-> v]
Raise(e) == [kind |-> "raise", value |-> e]

LoadInit ==
    /\ lpc = "idle"
    /\ api_integration_enabled = None
    /\ fallback_local \in BOOLEAN
    /\ remote_calls = 0
    /\ local_calls = 0
    /\ ltrace = <<>>
    /\ lresult = NoResult
    /\ invocations = 0

\* 'api_integration_enabled' in st.session_state and
\*  st.session_state.api_integration_enabled
RemoteEnabled(flag) == flag = Some(TRUE)

\* the code after the try statement: "if fallback_local: try: return local()"
AfterTry(fallback, trace) ==
    IF fallback
    THEN /\ lpc' = "in_local"
         /\ local_calls' = local_calls + 1
         /\ ltrace' = Append(trace, <<"local_call", "">>)
         /\ lresult' = NoResult
    ELSE /\ lpc' = "returned"
         /\ local_calls' = local_calls
         /\ ltrace' = trace
         /\ lresult' = Return("None")

\* loader(*args, **kwargs) is entered
Invoke ==
    /\ lpc = "idle"
    /\ invocations < MaxInvocations
    /\ invocations' = invocations + 1
    /\ IF RemoteEnabled(api_integration_enabled)
       THEN /\ lpc' = "in_remote"
            /\ remote_calls' = remote_calls + 1
            /\ ltrace' = Append(ltrace, <<"remote_call", "">>)
            /\ UNCHANGED <<local_calls, lresult>>
       ELSE /\ AfterTry(fallback_local, ltrace)
            /\ UNCHANGED remote_calls
    /\ UNCHANGED <<api_integration_enabled, fallback_local>>
    /\ LoadFrame

\* as RemoteReturns, with the return statement lost: the value is dropped
\* and control falls through to the local fallback
RemoteReturns_falls_through(v) ==
    /\ lpc = "in_remote"
    /\ AfterTry(fallback_local, Append(ltrace, <<"remote_return", v>>))
    /\ UNCHANGED <<api_integration_enabled, fallback_local, remote_calls,
                   invocations>>
    /\ LoadFrame

\* api_loader returns: "return api_loader(*args, **kwargs)"
RemoteReturns(v) ==
    /\ lpc = "in_remote"
    /\ lpc' = "returned"
    /\ lresult' = Return(v)
    /\ ltrace' = Append(ltrace, <<"remote_return", v>>)
    /\ UNCHANGED <<api_integration_enabled, fallback_local, remote_calls,
                   local_calls, invocations>>
    /\ LoadFrame

\* as RemoteRaises, with the exception handler re-raising
RemoteRaises_propagates(e) ==
    /\ lpc = "in_remote"
    /\ lpc' = "raised"
    /\ lresult' = Raise(e)
    /\ ltrace' = Append(ltrace, <<"remote_raise", e>>)
    /\ UNCHANGED <<api_integration_enabled, fallback_local, remote_calls,
                   local_calls, invocations>>
    /\ LoadFrame

\* api_loader raises: "except Exception as e" logs and falls through
RemoteRaises(e) ==
    /\ lpc = "in_remote"
    /\ AfterTry(fallback_local, Append(ltrace, <<"remote_raise", e>>))
    /\ UNCHANGED <<api_integration_enabled, fallback_local, remote_calls,
                   invocations>>
    /\ LoadFrame

\* local_loader returns: "return local_loader(*args, **kwargs)"
LocalReturns(v) ==
    /\ lpc = "in_local"
    /\ lpc' = "returned"
    /\ lresult' = Return(v)
    /\ ltrace' = Append(ltrace, <<"local_return", v>>)
    /\ UNCHANGED <<api_integration_enabled, fallback_local, remote_calls,
                   local_calls, invocations>>
    /\ LoadFrame

\* local_loader raises: logged, then "raise"
LocalRaises(e) ==
    /\ lpc = "in_local"
    /\ lpc' = "raised"
    /\ lresult' = Raise(e)
    /\ ltrace' = Append(ltrace, <<"local_raise", e>>)
    /\ UNCHANGED <<api_integration_enabled, fallback_local, remote_calls,
                   local_calls, invocations>>
    /\ LoadFrame

\* the caller has the outcome; the loader can be invoked again
Finish ==
    /\ lpc \in {"returned", "raised"}
    /\ lpc' = "idle"
    /\ remote_calls' = 0
    /\ local_calls' = 0
    /\ ltrace' = <<>>
    /\ lresult' = NoResult
    /\ UNCHANGED <<api_integration_enabled, fallback_local, invocations>>
    /\ LoadFrame

\* show_api_status: st.session_state.api_integration_enabled = True
EnableApi ==
    /\ lpc = "idle"
    /\ api_integration_enabled # Some(TRUE)
    /\ api_integration_enabled' = Some(TRUE)
    /\ UNCHANGED <<lpc, fallback_local, remote_calls, local_calls, ltrace,
                   lresult, invocations>>
    /\ LoadFrame

LoadNext ==
    \/ Invoke
    \/ \E v \in RemoteData : RemoteReturns(v)
    \/ \E e \in RemoteErrors : RemoteRaises(e)
    \/ \E v \in LocalData : LocalReturns(v)
    \/ \E e \in LocalErrors : LocalRaises(e)
    \/ Finish
    \/ EnableApi

----------------------------------------------------------------------------
(* NumProcs failed login attempts for the same identity, run concurrently. *)
(* login_user is two database transactions (the SELECT, then the UPDATE);  *)
(* authenticate works on the table its own get_users calls build.  All     *)
(* attempts of one run go to the same app.                                 *)

Procs == 1..NumProcs
ConcUser == "admin"
ConcPassword == WrongPassword

ConcInit ==
    /\ cpc = [p \in Procs |-> "start"]
    /\ crow = [p \in Procs |-> None]
    /\ apc = [p \in Procs |-> "start"]
    /\ ausers = [p \in Procs |-> get_users(1)]

\* login_user: the SELECT, and "if not user: return None"
CSelect(p) ==
    /\ \A q \in Procs : apc[q] = "start"
    /\ cpc[p] = "start"
    /\ crow' = [crow EXCEPT ![p] = SelectUnlocked(db_users, ConcUser, now)]
    /\ cpc' = [cpc EXCEPT ![p] = IF crow'[p] = None THEN "done" ELSE "fetched"]
    /\ UNCHANGED <<db_users, apc, ausers>>
    /\ ConcFrame

\* login_user: the password check and the UPDATE it leads to
CUpdate(p) ==
    /\ cpc[p] = "fetched"
    /\ LET row == CHOOSE r \in crow[p] : TRUE IN
       db_users' = IF ~verify_password_cloud(ConcPassword, row.password_hash)
                   THEN UpdateFailed(db_users, ConcUser, now)
                   ELSE UpdateSucceeded(db_users, ConcUser, now)
    /\ cpc' = [cpc EXCEPT ![p] = "done"]
    /\ UNCHANGED <<crow, apc, ausers>>
    /\ ConcFrame

\* authenticate: lookup, lock check and password check
ACheck(p) ==
    /\ \A q \in Procs : cpc[q] = "start"
    /\ apc[p] = "start"
    /\ \E s1 \in Salts, s2 \in Salts :
         /\ ausers' = [ausers EXCEPT ![p] = get_users(s1)]
         /\ apc' = [apc EXCEPT ![p] =
                IF authenticate_result(ConcUser, ConcPassword, s1, s2, now) = None
                   /\ ~is_account_locked(ConcUser, s2, now)
                THEN "failed" ELSE "done"]
    /\ UNCHANGED <<db_users, cpc, crow>>
    /\ ConcFrame

\* authenticate: record_failed_attempt, on the table of its get_users call
ARecord(p) ==
    /\ apc[p] = "failed"
    /\ \E s3 \in Salts :
         ausers' = [ausers EXCEPT ![p] = record_failed_attempt(ConcUser, s3, now)]
    /\ apc' = [apc EXCEPT ![p] = "done"]
    /\ UNCHANGED <<db_users, cpc, crow>>
    /\ ConcFrame

ConcNext ==
    \/ \E p \in Procs : CSelect(p)
    \/ \E p \in Procs : CUpdate(p)
    \/ \E p \in Procs : ACheck(p)
    \/ \E p \in Procs : ARecord(p)

----------------------------------------------------------------------------
(* Hashing a password and verifying candidates against the result.          *)

SaltArgs == {None} \cup {Some(s) : s \in Salts}

NoHash ==
    [app |-> "none", password |-> <<>>, candidate |-> <<>>, salt_arg |-> None,
     first |-> <<>>, second |-> <<>>, verify_same |-> FALSE,
     verify_other |-> FALSE]

HashInit == hout = NoHash

\* as hash_password_call, with the salt argument ignored: a salt is always
\* generated
hash_password_call_fresh(password, salt_arg, urandom) ==
    hash_password(password, urandom)

\* hash_password(password, salt=None): "if salt is None: salt =
\* os.urandom(32).hex()"; urandom is the value that call would draw
hash_password_call(password, salt_arg, urandom) ==
    hash_password(password,
                  IF salt_arg = None THEN urandom
                  ELSE CHOOSE v \in salt_arg : TRUE)

\* auth.py: hash_password is called twice with the same arguments, then
\* verify_password on the first result with the password itself and with
\* a candidate
HashThenVerify(password, candidate, salt_arg) ==
    /\ hout = NoHash
    /\ \E u1 \in Salts, u2 \in Salts :
         LET h1 == hash_password_call(password, salt_arg, u1)
             h2 == hash_password_call(password, salt_arg, u2)
         IN hout' = [app |-> "auth", password |-> password,
                     candidate |-> candidate, salt_arg |-> salt_arg,
                     first |-> h1, second |-> h2,
                     verify_same |-> verify_password(password, h1[1], h1[2]),
                     verify_other |-> verify_password(candidate, h1[1], h1[2])]
    /\ HashFrame

\* cloud_app.py: the same exercise with hash_password(password) and
\* verify_password(password, password_hash)
CloudHashThenVerify(password, candidate) ==
    /\ hout = NoHash
    /\ LET h1 == hash_password_cloud(password)
           h2 == hash_password_cloud(password)
       IN hout' = [app |-> "cloud", password |-> password,
                   candidate |-> candidate, salt_arg |-> None,
                   first |-> <<h1>>, second |-> <<h2>>,
                   verify_same |-> verify_password_cloud(password, h1),
                   verify_other |-> verify_password_cloud(candidate, h1)]
    /\ HashFrame

HashNext ==
    \/ \E p \in HashPasswords, q \in HashPasswords, a \in SaltArgs :
          HashThenVerify(p, q, a)
    \/ \E p \in HashPasswords, q \in HashPasswords : CloudHashThenVerify(p, q)

----------------------------------------------------------------------------
(* database.py: SecureDatabase.execute_query / execute_non_query, one call  *)
(* at a time, and the page's handling of a failure (error_handling.py).     *)
(* A text is the sequence of the parts it was formatted from.               *)

Statements == {"insert_a", "insert_b"}
Methods == {"execute_query", "execute_non_query"}
BackendErrors ==
    {[class |-> "SQLAlchemyError",
      message |-> "UNIQUE constraint failed: projects.name"],
     [class |-> "Exception", message |-> "unable to open database file"]}
RawMessages == {e.message : e \in BackendErrors}

NoCall == [method |-> "none", statement |-> "none", failed_at |-> "none"]
NoOutcome == [kind |-> "none"]
Returned(v) == [kind |-> "return", value |-> v]
DatabaseError(message) ==
    [kind |-> "raise", type |-> "DatabaseError", message |-> message]

QueryInit ==
    /\ qpc = "idle"
    /\ qcall = NoCall
    /\ checked_out = 0
    /\ stored = {}
    /\ pending = {}
    /\ qresult = NoOutcome
    /\ qlog = <<>>
    /\ shown = {}
    /\ qbefore = {}
    /\ qcalls = 0

\* the except clauses of execute_query / execute_non_query: the message of
\* the DatabaseError they raise
WrapMessage(method, e) ==
    IF e.class = "SQLAlchemyError"
    THEN IF method = "execute_query"
         THEN <<"Database query failed: ", e.message>>
         ELSE <<"Database operation failed: ", e.message>>
    ELSE <<"Unexpected database error: ", e.message>>

\* the log lines of a failing call: get_connection's, then the method's
FailureLog(method, e) ==
    << <<"Database connection error: ", e.message>>,
       IF e.class = "SQLAlchemyError"
       THEN <<"SQL error in ", method, ": ", e.message>>
       ELSE <<"Unexpected error in ", method, ": ", e.message>> >>

\* as Fail, with no finally clause in get_connection: the connection of a
\* failing call is rolled back but not closed
Fail_without_finally(e, has_conn) ==
    /\ pending' = IF has_conn THEN {} ELSE pending
    /\ checked_out' = checked_out
    /\ qlog' = qlog \o FailureLog(qcall.method, e)
    /\ qresult' = DatabaseError(WrapMessage(qcall.method, e))
    /\ qpc' = "raised"
    /\ qcall' = [qcall EXCEPT !.failed_at = qpc]
    /\ UNCHANGED <<stored, shown, qbefore, qcalls>>
    /\ QueryFrame

\* An exception e leaves the with block (or engine.connect() raised it, and
\* has_conn is false): get_connection logs, rolls back and closes the
\* connection it has, and the method wraps e in a DatabaseError.
Fail(e, has_conn) ==
    /\ pending' = IF has_conn THEN {} ELSE pending
    /\ checked_out' = IF has_conn THEN checked_out - 1 ELSE checked_out
    /\ qlog' = qlog \o FailureLog(qcall.method, e)
    /\ qresult' = DatabaseError(WrapMessage(qcall.method, e))
    /\ qpc' = "raised"
    /\ qcall' = [qcall EXCEPT !.failed_at = qpc]
    /\ UNCHANGED <<stored, shown, qbefore, qcalls>>
    /\ QueryFrame

\* db.execute_query(...) or db.execute_non_query(...) is called
Call(method, statement) ==
    /\ qpc = "idle"
    /\ qcalls < MaxCalls
    /\ qcalls' = qcalls + 1
    /\ qcall' = [method |-> method, statement |-> statement,
                 failed_at |-> "none"]
    /\ qbefore' = stored
    /\ qpc' = "connecting"
    /\ UNCHANGED <<checked_out, stored, pending, qresult, qlog, shown>>
    /\ QueryFrame

\* get_connection: conn = self.engine.connect()
ConnectReturns ==
    /\ qpc = "connecting"
    /\ checked_out' = checked_out + 1
    /\ qpc' = "connected"
    /\ UNCHANGED <<qcall, stored, pending, qresult, qlog, shown, qbefore, qcalls>>
    /\ QueryFrame

ConnectRaises(e) ==
    /\ qpc = "connecting"
    /\ Fail(e, FALSE)

\* conn.execute(text(query), params or {})
ExecuteReturns ==
    /\ qpc = "connected"
    /\ pending' = IF qcall.method = "execute_non_query"
                  THEN pending \cup {qcall.statement} ELSE pending
    /\ qpc' = "executed"
    /\ UNCHANGED <<qcall, checked_out, stored, qresult, qlog, shown, qbefore,
                   qcalls>>
    /\ QueryFrame

ExecuteRaises(e) ==
    /\ qpc = "connected"
    /\ Fail(e, TRUE)

\* execute_non_query: conn.commit()
CommitReturns ==
    /\ qpc = "executed"
    /\ qcall.method = "execute_non_query"
    /\ stored' = stored \cup pending
    /\ pending' = {}
    /\ qpc' = "committed"
    /\ UNCHANGED <<qcall, checked_out, qresult, qlog, shown, qbefore, qcalls>>
    /\ QueryFrame

\* as CommitRaises, with a commit that takes effect before it raises
CommitRaises_after_effect(e) ==
    /\ qpc = "executed"
    /\ qcall.method = "execute_non_query"
    /\ stored' = stored \cup pending
    /\ pending' = {}
    /\ checked_out' = checked_out - 1
    /\ qlog' = qlog \o FailureLog(qcall.method, e)
    /\ qresult' = DatabaseError(WrapMessage(qcall.method, e))
    /\ qpc' = "raised"
    /\ qcall' = [qcall EXCEPT !.failed_at = qpc]
    /\ UNCHANGED <<shown, qbefore, qcalls>>
    /\ QueryFrame

CommitRaises(e) ==
    /\ qpc = "executed"
    /\ qcall.method = "execute_non_query"
    /\ Fail(e, TRUE)

\* execute_non_query: "return result.rowcount"; leaving the with block
\* closes the connection
ReturnRowcount ==
    /\ qpc = "committed"
    /\ checked_out' = checked_out - 1
    /\ qresult' = Returned(1)
    /\ qpc' = "returned"
    /\ UNCHANGED <<qcall, stored, pending, qlog, shown, qbefore, qcalls>>
    /\ QueryFrame

\* execute_query: result.keys(), result.fetchall() and the list of dicts
\* are built and returned; leaving the with block closes the connection
MapRowsReturns ==
    /\ qpc = "executed"
    /\ qcall.method = "execute_query"
    /\ checked_out' = checked_out - 1
    /\ qresult' = Returned(stored)
    /\ qpc' = "returned"
    /\ UNCHANGED <<qcall, stored, pending, qlog, shown, qbefore, qcalls>>
    /\ QueryFrame

MapRowsRaises(e) ==
    /\ qpc = "executed"
    /\ qcall.method = "execute_query"
    /\ Fail(e, TRUE)

\* handle_error(error, context) for the DatabaseError of database.py, which
\* is not an ESGDashboardError
handle_error(error, context) ==
    [type |-> error.type, message |-> error.message, context |-> context,
     user_friendly |-> FALSE, traceback |-> <<"Traceback", error.message>>]

\* display_error(error_info): the texts st.error and the "Error Details"
\* expander show
display_error(error_info) ==
    IF error_info.user_friendly THEN {<<"error: ">> \o error_info.message}
    ELSE {<<"An unexpected error occurred. Please try again or contact support.">>,
          <<"Error Type: ", error_info.type>>,
          <<"Context: ", error_info.context>>,
          <<"Message: ">> \o error_info.message,
          <<"Traceback: ">> \o error_info.traceback}

\* the page catches the exception: handle_error, then display_error
ShowError ==
    /\ qpc = "raised"
    /\ shown = {}
    /\ shown' = display_error(handle_error(qresult, "Create Project"))
    /\ UNCHANGED <<qpc, qcall, checked_out, stored, pending, qresult, qlog,
                   qbefore, qcalls>>
    /\ QueryFrame

\* the caller has the outcome; the next call can start
QueryDone ==
    /\ qpc \in {"returned", "raised"}
    /\ qpc = "raised" => shown # {}
    /\ qpc' = "idle"
    /\ qcall' = NoCall
    /\ qresult' = NoOutcome
    /\ qlog' = <<>>
    /\ shown' = {}
    /\ UNCHANGED <<checked_out, stored, pending, qbefore, qcalls>>
    /\ QueryFrame

QueryNext ==
    \/ \E m \in Methods, st \in Statements : Call(m, st)
    \/ ConnectReturns
    \/ \E e \in BackendErrors : ConnectRaises(e)
    \/ ExecuteReturns
    \/ \E e \in BackendErrors : ExecuteRaises(e)
    \/ CommitReturns
    \/ \E e \in BackendErrors : CommitRaises(e)
    \/ ReturnRowcount
    \/ MapRowsReturns
    \/ \E e \in BackendErrors : MapRowsRaises(e)
    \/ ShowError
    \/ QueryDone

----------------------------------------------------------------------------
(* Forms that write submitted data: validation, then the parameters bound   *)
(* to the statement.  A text is one of four: empty, plain, with markup, or  *)
(* longer than every limit.  A bound parameter records where its value      *)
(* came from.                                                               *)

Texts == {"", "Acme Plan", "<b>Acme</b>", "TOO_LONG"}
OrgLabels == {"Acme Corp (org_0000001)"}
status_options == {"draft", "active", "completed", "archived"}
SessionUser == "admin"
SelectedProject == "proj_0000001"

TooLong(text) == text = "TOO_LONG"
html_escape(text) ==
    IF text = "<b>Acme</b>" THEN "&lt;b&gt;Acme&lt;/b&gt;" ELSE text
\* re.match(r'^[a-zA-Z0-9\s\-_.,()&]+$', name)
SafeChars(text) == text # "<b>Acme</b>"
\* org_options[selected_org]
org_options(label) == "org_0000001"

Valid(v) == [ok |-> TRUE, value |-> v]
ValidationError == [ok |-> FALSE, value |-> ""]

validate_project_name(name) ==
    IF name = "" THEN ValidationError
    ELSE IF TooLong(name) THEN ValidationError
    ELSE IF ~SafeChars(name) THEN ValidationError
    ELSE Valid(html_escape(name))

validate_description(description) ==
    IF TooLong(description) THEN ValidationError
    ELSE Valid(html_escape(description))

validate_organisation_id(org_id) ==
    IF org_id = "" THEN ValidationError
    ELSE IF org_id \notin OrgLabels THEN ValidationError
    ELSE Valid(org_id)

validate_project_status(status) ==
    IF status = "" THEN Valid("draft")
    ELSE IF status \notin status_options THEN ValidationError
    ELSE Valid(status)

validate_text_input(text) ==
    IF TooLong(text) THEN ValidationError ELSE Valid(html_escape(text))

\* cloud_app.py validate_input: tags removed, text cut at max_length
validate_input(text) ==
    IF text = "" THEN ""
    ELSE IF text = "<b>Acme</b>" THEN "Acme"
    ELSE IF TooLong(text) THEN "TOO_LONG[:max_length]"
    ELSE text

Bound(v, origin) == [value |-> v, by |-> origin]
NoFields == [k \in {} |-> ""]
NoParams == [k \in {} |-> Bound("", "none")]
NoForm ==
    [flow |-> "none", fields |-> NoFields, validated |-> {},
     executed |-> FALSE, params |-> NoParams]

\* the submission ends without a statement being executed
Rejected(flow, fields, validated) ==
    [flow |-> flow, fields |-> fields, validated |-> validated,
     executed |-> FALSE, params |-> NoParams]

\* db.execute_non_query(query, params) is reached
Executed(flow, fields, validated, params) ==
    [flow |-> flow, fields |-> fields, validated |-> validated,
     executed |-> TRUE, params |-> params]

FormInit == fout = NoForm

\* streamlit_app.py show_create_project_form, validate_project_form_data
\* and database.py create_project
CreateProject(name, description, organisation, status) ==
    /\ fout = NoForm
    /\ LET fields == [project_name |-> name, project_description |-> description,
                      organisation |-> organisation, project_status |-> status]
           vn == validate_project_name(name)
           vd == validate_description(description)
           vo == validate_organisation_id(organisation)
           vs == validate_project_status(status)
       IN fout' =
            IF ~vn.ok THEN Rejected("create_project", fields, {})
            ELSE IF ~vd.ok THEN Rejected("create_project", fields, {"project_name"})
            ELSE IF ~vo.ok
            THEN Rejected("create_project", fields,
                          {"project_name", "project_description"})
            ELSE IF ~vs.ok
            THEN Rejected("create_project", fields,
                          {"project_name", "project_description", "organisation"})
            ELSE Executed("create_project", fields, DOMAIN fields,
                    [name |-> Bound(vn.value, "validator"),
                     description |-> Bound(vd.value, "validator"),
                     organisation_id |-> Bound(org_options(organisation), "lookup"),
                     created_by |-> Bound(SessionUser, "session"),
                     status |-> Bound(vs.value, "validator")])
    /\ FormFrame

\* streamlit_app.py show_edit_project_form and database.py update_project
UpdateProject(name, description, status) ==
    /\ fout = NoForm
    /\ LET fields == [edit_project_name |-> name,
                      edit_project_description |-> description,
                      edit_project_status |-> status]
           vn == validate_project_name(name)
           vd == validate_description(description)
           vs == validate_project_status(status)
       IN fout' =
            IF ~vn.ok THEN Rejected("update_project", fields, {})
            ELSE IF ~vd.ok
            THEN Rejected("update_project", fields, {"edit_project_name"})
            ELSE IF ~vs.ok
            THEN Rejected("update_project", fields,
                          {"edit_project_name", "edit_project_description"})
            ELSE Executed("update_project", fields, DOMAIN fields,
                    [project_id |-> Bound(SelectedProject, "caller"),
                     name |-> Bound(vn.value, "validator"),
                     description |-> Bound(vd.value, "validator"),
                     status |-> Bound(vs.value, "validator")])
    /\ FormFrame

\* esg_frameworks.py TCFDAssessment form, validate_tcfd_assessment and
\* save_tcfd_assessment_local (api_integration_enabled not set)
SaveTcfd(governance, strategy, risk_management, metrics_targets) ==
    /\ fout = NoForm
    /\ LET fields == [governance |-> governance, strategy |-> strategy,
                      risk_management |-> risk_management,
                      metrics_targets |-> metrics_targets]
           v == [f \in DOMAIN fields |-> validate_text_input(fields[f])]
           accepted == {f \in DOMAIN fields : v[f].ok}
           has_content == \E f \in DOMAIN fields : v[f].value # ""
       IN fout' =
            IF accepted # DOMAIN fields \/ ~has_content
            THEN Rejected("save_tcfd", fields, accepted)
            ELSE Executed("save_tcfd", fields, accepted,
                    [project_id |-> Bound(SelectedProject, "caller"),
                     governance |-> Bound(v["governance"].value, "validator"),
                     strategy |-> Bound(v["strategy"].value, "validator"),
                     risk_management |->
                         Bound(v["risk_management"].value, "validator"),
                     metrics_targets |->
                         Bound(v["metrics_targets"].value, "validator")])
    /\ FormFrame

\* esg_frameworks.py CSRDAssessment form and save_csrd_assessment_local
\* (api_integration_enabled not set)
SaveCsrd(env_impact, env_financial, social_impact, social_financial) ==
    /\ fout = NoForm
    /\ LET fields == [env_impact |-> env_impact, env_financial |-> env_financial,
                      social_impact |-> social_impact,
                      social_financial |-> social_financial]
       IN fout' =
            Executed("save_csrd", fields, {},
                [project_id |-> Bound(SelectedProject, "caller"),
                 env_impact |-> Bound(env_impact, "form"),
                 env_financial |-> Bound(env_financial, "form"),
                 social_impact |-> Bound(social_impact, "form"),
                 social_financial |-> Bound(social_financial, "form")])
    /\ FormFrame

\* cloud_app.py show_create_project_form and create_project
CloudCreateProject(name, description, organisation, status) ==
    /\ fout = NoForm
    /\ LET fields == [project_name |-> name, project_description |-> description,
                      organisation |-> organisation, project_status |-> status]
           validated_name == validate_input(name)
           validated_description == validate_input(description)
       IN fout' =
            IF name = "" THEN Rejected("cloud_create_project", fields, {})
            ELSE IF validated_name = ""
            THEN Rejected("cloud_create_project", fields, {})
            ELSE Executed("cloud_create_project", fields,
                    {"project_name", "project_description"},
                    [name |-> Bound(validated_name, "validator"),
                     description |-> Bound(validated_description, "validator"),
                     organisation_id |-> Bound(org_options(organisation), "lookup"),
                     status |-> Bound(status, "form"),
                     created_by |-> Bound(SessionUser, "session")])
    /\ FormFrame

FormNext ==
    \/ \E n \in Texts, d \in Texts, o \in OrgLabels, st \in status_options :
          CreateProject(n, d, o, st)
    \/ \E n \in Texts, d \in Texts, st \in status_options : UpdateProject(n, d, st)
    \/ \E g \in Texts, st \in Texts, r \in Texts, m \in Texts : SaveTcfd(g, st, r, m)
    \/ \E a \in Texts, b \in Texts, c \in Texts, d \in Texts : SaveCsrd(a, b, c, d)
    \/ \E n \in Texts, d \in Texts, o \in OrgLabels, st \in status_options :
          CloudCreateProject(n, d, o, st)

----------------------------------------------------------------------------
(* validation.py: InputValidator on real strings.  A str is the sequence   *)
(* of its code points; a call is made once, on one input, and vout keeps   *)
(* what it was given and what it answered.                                 *)

Rep(c, n) == [i \in 1..n |-> c]
\* str.isspace() for the characters str.strip() removes and \s matches
Whitespace == {9, 10, 11, 12, 13, 32}

strip(s) ==
    LET kept == {i \in 1..Len(s) : s[i] \notin Whitespace} IN
    IF kept = {} THEN <<>>
    ELSE LET lo == CHOOSE i \in kept : \A j \in kept : i <= j
             hi == CHOOSE i \in kept : \A j \in kept : j <= i
         IN SubSeq(s, lo, hi)

lower(s) == [i \in 1..Len(s) |-> IF s[i] \in 65..90 THEN s[i] + 32 ELSE s[i]]
upper(s) == [i \in 1..Len(s) |-> IF s[i] \in 97..122 THEN s[i] - 32 ELSE s[i]]

\* html.escape(s), quote=True
EscapeChar(c) ==
    CASE c = 38 -> <<38, 97, 109, 112, 59>>            \* &amp;
      [] c = 60 -> <<38, 108, 116, 59>>                \* &lt;
      [] c = 62 -> <<38, 103, 116, 59>>                \* &gt;
      [] c = 34 -> <<38, 113, 117, 111, 116, 59>>      \* &quot;
      [] c = 39 -> <<38, 35, 120, 50, 55, 59>>         \* &#x27;
      [] OTHER -> <<c>>
RECURSIVE escape(_)
escape(s) ==
    IF s = <<>> THEN <<>>
    ELSE IF Len(s) = 1 THEN EscapeChar(s[1])
    ELSE LET half == Len(s) \div 2 IN
         escape(SubSeq(s, 1, half)) \o escape(SubSeq(s, half + 1, Len(s)))

\* [a-zA-Z0-9\s\-_.,()&]
NameChar(c) ==
    c \in (97..122) \cup (65..90) \cup (48..57) \cup Whitespace
          \cup {45, 95, 46, 44, 40, 41, 38}
\* re.match(r'^[a-zA-Z0-9\s\-_.,()&]+$', name): the newline that $ lets
\* pass at the end is itself in the class
NameMatch(s) == s # <<>> /\ \A i \in 1..Len(s) : NameChar(s[i])

\* re.sub(r'<[^>]+>', '', text)
\* a tag opens at i when the first '>' after it is not the next character
FirstClose(s, i) ==
    LET closes == {j \in (i + 1)..Len(s) : s[j] = 62} IN
    IF closes = {} THEN 0 ELSE CHOOSE j \in closes : \A m \in closes : j <= m
RECURSIVE RemoveTags(_)
RemoveTags(s) ==
    LET opens == {i \in 1..Len(s) : s[i] = 60 /\ FirstClose(s, i) > i + 1} IN
    IF opens = {} THEN s
    ELSE LET i == CHOOSE k \in opens : \A m \in opens : k <= m IN
         SubSeq(s, 1, i - 1) \o RemoveTags(SubSeq(s, FirstClose(s, i) + 1, Len(s)))

\* what a validator answers: the sanitized value, or the error it raises
\* (its message and the values the message lists)
Accepted(v) == [ok |-> TRUE, value |-> v, message |-> "", allowed |-> <<>>]
Refuse(m, listed) == [ok |-> FALSE, value |-> <<>>, message |-> m, allowed |-> listed]

\* `not x` for an Optional[str]
Falsy(x) == x = None \/ x = Some(<<>>)
Str(x) == CHOOSE s \in x : TRUE

InputValidator_validate_project_name(name) ==
    IF Falsy(name) THEN Refuse("Project name is required", <<>>)
    ELSE LET n == strip(Str(name)) IN
         IF Len(n) = 0 THEN Refuse("Project name cannot be empty", <<>>)
         ELSE IF Len(n) > max_name_length
              THEN Refuse("Project name cannot exceed 255 characters", <<>>)
         ELSE IF ~NameMatch(n)
              THEN Refuse("Project name contains invalid characters", <<>>)
         ELSE Accepted(escape(n))

\* database.py create_project: the checks before the INSERT
create_project_name(name) ==
    IF Falsy(name) THEN Refuse("Missing required field: name", <<>>)
    ELSE LET n == strip(Str(name)) IN
         IF Len(n) > max_name_length THEN Refuse("Project name too long", <<>>)
         ELSE IF Len(n) < 1 THEN Refuse("Project name cannot be empty", <<>>)
         ELSE Accepted(n)

\* cloud_app.py validate_input(text, max_length)
cloud_validate_input(text, max_length) ==
    IF Falsy(text) THEN <<>>
    ELSE LET t == RemoveTags(Str(text)) IN
         strip(IF Len(t) > max_length THEN SubSeq(t, 1, max_length) ELSE t)

\* streamlit_app.py show_create_project_form: validate_project_form_data,
\* then create_project on the validated name
submit_project_name(name) ==
    LET validated == InputValidator_validate_project_name(name) IN
    IF ~validated.ok THEN validated
    ELSE create_project_name(Some(validated.value))

\* cloud_app.py show_create_project_form: the name through validate_input
cloud_submit_project_name(name) ==
    IF Falsy(name) THEN Refuse("Project name is required", <<>>)
    ELSE LET validated_name == cloud_validate_input(name, max_name_length) IN
         IF validated_name = <<>> THEN Refuse("Invalid project name", <<>>)
         ELSE Accepted(validated_name)

draft == <<100, 114, 97, 102, 116>>
active == <<97, 99, 116, 105, 118, 101>>
completed == <<99, 111, 109, 112, 108, 101, 116, 101, 100>>
archived == <<97, 114, 99, 104, 105, 118, 101, 100>>
valid_statuses == <<draft, active, completed, archived>>
valid_periods ==
    << <<81, 49>>, <<81, 50>>, <<81, 51>>, <<81, 52>>,       \* Q1 .. Q4
       <<72, 49>>, <<72, 50>>,                               \* H1, H2
       <<65, 110, 110, 117, 97, 108>> >>                     \* Annual
valid_categories ==
    << <<101, 110, 118, 105, 114, 111, 110, 109, 101, 110, 116, 97, 108>>,
       <<115, 111, 99, 105, 97, 108>>,
       <<103, 111, 118, 101, 114, 110, 97, 110, 99, 101>> >>
Range(seq) == {seq[i] : i \in 1..Len(seq)}

InputValidator_validate_project_status(status) ==
    IF Falsy(status) THEN Accepted(draft)
    ELSE LET s == lower(strip(Str(status))) IN
         IF s \notin Range(valid_statuses)
         THEN Refuse("Invalid status. Must be one of: ", valid_statuses)
         ELSE Accepted(s)

InputValidator_validate_period(period) ==
    IF Falsy(period) THEN Refuse("Period is required", <<>>)
    ELSE LET p == strip(Str(period)) IN
         IF p \notin Range(valid_periods)
         THEN Refuse("Invalid period. Must be one of: ", valid_periods)
         ELSE Accepted(p)

InputValidator_validate_category(category) ==
    IF Falsy(category) THEN Refuse("Category is required", <<>>)
    ELSE LET c == lower(strip(Str(category))) IN
         IF c \notin Range(valid_categories)
         THEN Refuse("Invalid category. Must be one of: ", valid_categories)
         ELSE Accepted(c)

\* the inputs: names around the length limit, with and without surrounding
\* blanks, made of letters, or with one '&', '<' or a tag in front
Lengths == {0, 1} \cup ((max_name_length - Slack)..(max_name_length + Slack))
Fronts == {<<>>, <<38>>, <<60>>, <<60, 98, 62>>}
Names ==
    {Rep(32, l) \o front \o Rep(97, n - Len(front)) \o Rep(32, t) :
        l \in 0..MaxPad, t \in 0..MaxPad,
        front \in Fronts, n \in {m \in Lengths : m >= 3} }
    \cup {Rep(32, l) \o Rep(97, n) : l \in 0..MaxPad, n \in {0, 1}}
\* the values of an enumerated field: every allowed value of the three
\* fields as it is, in lower and in upper case, one unknown word, the empty
\* string and None
Words ==
    Range(valid_statuses) \cup Range(valid_periods) \cup Range(valid_categories)
    \cup {<<98, 111, 103, 117, 115>>}
EnumInputs ==
    {None, Some(<<>>)}
    \cup {Some(w) : w \in Words} \cup {Some(lower(w)) : w \in Words}
    \cup {Some(upper(w)) : w \in Words}
    \cup {Some(<<32>> \o w) : w \in Words}

NoValidation == [validator |-> "none", input |-> None, result |-> Accepted(<<>>)]
ValidInit == vout = NoValidation

ValidateProjectName(name) ==
    /\ vout = NoValidation
    /\ vout' = [validator |-> "validate_project_name", input |-> name,
                result |-> InputValidator_validate_project_name(name)]
    /\ ValidFrame

CreateProjectName(name) ==
    /\ vout = NoValidation
    /\ vout' = [validator |-> "create_project", input |-> name,
                result |-> create_project_name(name)]
    /\ ValidFrame

SubmitProjectName(name) ==
    /\ vout = NoValidation
    /\ vout' = [validator |-> "show_create_project_form", input |-> name,
                result |-> submit_project_name(name)]
    /\ ValidFrame

CloudSubmitProjectName(name) ==
    /\ vout = NoValidation
    /\ vout' = [validator |-> "cloud show_create_project_form", input |-> name,
                result |-> cloud_submit_project_name(name)]
    /\ ValidFrame

ValidateProjectStatus(status) ==
    /\ vout = NoValidation
    /\ vout' = [validator |-> "validate_project_status", input |-> status,
                result |-> InputValidator_validate_project_status(status)]
    /\ ValidFrame

ValidatePeriod(period) ==
    /\ vout = NoValidation
    /\ vout' = [validator |-> "validate_period", input |-> period,
                result |-> InputValidator_validate_period(period)]
    /\ ValidFrame

ValidateCategory(category) ==
    /\ vout = NoValidation
    /\ vout' = [validator |-> "validate_category", input |-> category,
                result |-> InputValidator_validate_category(category)]
    /\ ValidFrame

ValidNext ==
    \/ \E name \in Names : ValidateProjectName(Some(name))
    \/ \E name \in Names : CreateProjectName(Some(name))
    \/ \E name \in Names : SubmitProjectName(Some(name))
    \/ \E name \in Names : CloudSubmitProjectName(Some(name))
    \/ \E status \in EnumInputs : ValidateProjectStatus(status)
    \/ \E period \in EnumInputs : ValidatePeriod(period)
    \/ \E category \in EnumInputs : ValidateCategory(category)

----------------------------------------------------------------------------
(* The statement text each writer hands to the backend, and the parameters  *)
(* it binds.  A statement is the sequence of the pieces it was put together *)
(* from; a dict is the sequence of its keys, in insertion order, and the    *)
(* value under each key; a value is a str as a sequence of code points.     *)

Acme == <<65, 99, 109, 101>>                                   \* "Acme"
Hostile == <<120, 39, 59, 32, 68, 82, 79, 80, 32, 45, 45>>     \* "x'; DROP --"
CallerTexts == {<<>>, Acme, Hostile, Rep(97, max_name_length + 1)}
ProjectIds == {Rep(49, min_id_length), <<49>>, Hostile}
Keys == {"name", "description", "status", "id", "name = 'x', created_by"}
KeyLists ==
    {ks \in UNION {[1..n -> Keys] : n \in 0..MaxKeys} :
        \A i \in 1..Len(ks), j \in 1..Len(ks) : i # j => ks[i] # ks[j]}
frameworks == {"TCFD", "CSRD", "GRI", "SASB"}
\* str.lower() on the names the four buttons store
str_lower(name) ==
    CASE name = "TCFD" -> "tcfd" [] name = "CSRD" -> "csrd"
      [] name = "GRI" -> "gri" [] name = "SASB" -> "sasb"

NoStatement ==
    [op |-> "none", outcome |-> "none", statement |-> <<>>,
     placeholders |-> {}, bound |-> {}, given |-> <<>>]
\* the call raised, or returned, before any statement was built
NotExecuted(op, given, outcome) ==
    [op |-> op, outcome |-> outcome, statement |-> <<>>,
     placeholders |-> {}, bound |-> {}, given |-> given]
\* db.execute_non_query(query, params) / cursor.execute(query, params)
ExecutedStatement(op, given, query, placeholders, params) ==
    [op |-> op, outcome |-> "executed", statement |-> query,
     placeholders |-> placeholders, bound |-> params, given |-> given]

StmtInit == selected_framework = None /\ sout = NoStatement

\* ', '.join(set_clauses)
RECURSIVE join(_)
join(clauses) ==
    IF clauses = <<>> THEN <<>>
    ELSE IF Len(clauses) = 1 THEN clauses[1]
    ELSE clauses[1] \o <<", ">> \o join(Tail(clauses))

\* for key, value in project_data.items(): if key in [...]
RECURSIVE set_clauses_unfiltered(_)
set_clauses_unfiltered(keys) ==
    IF keys = <<>> THEN <<>>
    ELSE << <<Head(keys), " = :", Head(keys)>> >>
         \o set_clauses_unfiltered(Tail(keys))
RECURSIVE set_clauses(_)
set_clauses(keys) ==
    IF keys = <<>> THEN <<>>
    ELSE IF Head(keys) \in {"name", "description", "status"}
         THEN << <<Head(keys), " = :", Head(keys)>> >> \o set_clauses(Tail(keys))
         ELSE set_clauses(Tail(keys))

\* database.py update_project(project_id, project_data)
UpdateProjectStatement(project_id, keys, value) ==
    /\ sout = NoStatement
    /\ LET given == <<project_id, keys, value>>
           name == strip(value)
           clauses == set_clauses(keys)
           columns == {clauses[i][1] : i \in 1..Len(clauses)}
       IN sout' =
            IF project_id = <<>> \/ Len(project_id) < min_id_length
              THEN NotExecuted("update_project", given, "ValueError")
            ELSE IF \E i \in 1..Len(keys) : keys[i] = "name"
                    /\ (Len(name) > max_name_length \/ Len(name) < 1)
              THEN NotExecuted("update_project", given, "ValueError")
            ELSE IF clauses = <<>>
              THEN NotExecuted("update_project", given, "ValueError")
            ELSE ExecutedStatement("update_project", given,
                    <<"UPDATE projects SET ">>
                      \o join(clauses \o << <<"updated_at = datetime('now')">> >>)
                      \o <<" WHERE id = :project_id">>,
                    columns \cup {"project_id"},
                    {<<"project_id", project_id>>}
                      \cup {<<c, IF c = "name" THEN name ELSE value>> : c \in columns})
    /\ UNCHANGED selected_framework
    /\ StmtFrame

\* database.py create_project: query
InsertProject ==
    "INSERT INTO projects (name, description, organisation_id, created_by, status, created_at, updated_at) VALUES (:name, :description, :organisation_id, :created_by, :status, datetime('now'), datetime('now'))"

\* database.py create_project(project_data)
CreateProjectStatement(name, organisation_id) ==
    /\ sout = NoStatement
    /\ LET given == <<name, organisation_id>> IN
       sout' =
         IF name = <<>> \/ organisation_id = <<>>
           THEN NotExecuted("create_project", given, "ValueError")
         ELSE IF Len(strip(name)) > max_name_length \/ Len(strip(name)) < 1
           THEN NotExecuted("create_project", given, "ValueError")
         ELSE ExecutedStatement("create_project", given,
                <<InsertProject>>,
                {"name", "description", "organisation_id", "created_by", "status"},
                {<<"name", strip(name)>>, <<"description", <<>> >>,
                 <<"organisation_id", organisation_id>>,
                 <<"created_by", <<>> >>, <<"status", draft>>})
    /\ UNCHANGED selected_framework
    /\ StmtFrame

\* cloud_app.py show_frameworks: one of the four assessment buttons
SelectFramework(framework) ==
    /\ sout = NoStatement
    /\ selected_framework' = Some(framework)
    /\ UNCHANGED sout
    /\ StmtFrame

\* cloud_app.py show_framework_assessment: Cancel
CancelAssessment ==
    /\ sout = NoStatement
    /\ selected_framework # None
    /\ selected_framework' = None
    /\ sout' = NotExecuted("show_framework_assessment", <<>>, "Cancel")
    /\ StmtFrame

\* cloud_app.py show_framework_assessment: the text after the table prefix
InsertAssessmentTail ==
    "_assessments (id, project_id, governance_data, strategy_data, risk_management_data, metrics_targets_data) VALUES (?, ?, ?, ?, ?, ?)"

\* cloud_app.py show_framework_assessment: Submit Assessment
SubmitAssessment(governance, strategy) ==
    /\ sout = NoStatement
    /\ selected_framework # None
    /\ LET framework == CHOOSE f \in selected_framework : TRUE
           given == <<governance, strategy>>
       IN IF governance = <<>> \/ strategy = <<>>
          THEN /\ sout' = NotExecuted("show_framework_assessment", given,
                                      "All fields are required")
               /\ UNCHANGED selected_framework
          ELSE /\ sout' = ExecutedStatement("show_framework_assessment", given,
                    <<"INSERT OR REPLACE INTO ", str_lower(framework),
                      InsertAssessmentTail>>,
                    {"id", "project_id", "governance_data", "strategy_data",
                     "risk_management_data", "metrics_targets_data"},
                    {<<"id", <<str_lower(framework), "_", "int(time.time())">> >>,
                     <<"project_id", Rep(49, min_id_length)>>,
                     <<"governance_data", governance>>,
                     <<"strategy_data", strategy>>,
                     <<"risk_management_data", strategy>>,
                     <<"metrics_targets_data", strategy>>})
               /\ selected_framework' = None
    /\ StmtFrame

StmtNext ==
    \/ \E id \in ProjectIds, keys \in KeyLists, v \in CallerTexts :
          UpdateProjectStatement(id, keys, v)
    \/ \E n \in CallerTexts, o \in ProjectIds : CreateProjectStatement(n, o)
    \/ \E f \in frameworks : SelectFramework(f)
    \/ CancelAssessment
    \/ \E g \in CallerTexts, s \in CallerTexts : SubmitAssessment(g, s)

----------------------------------------------------------------------------
(* api_integration.py: NextJSAPIClient._make_request on the one module-level *)
(* api_client.  Each browser session runs its script in its own thread with *)
(* its own st.session_state; a request is two steps, reading the token into *)
(* the client's headers and sending.                                        *)

Sessions == 1..NumSessions
Tokens == 1..MaxTokens
Endpoints == {"/projects", "/organisations"}
Unauthorized == 401
Forbidden == 403
StatusCodes == {200, Unauthorized, Forbidden, 500}

NoRequest ==
    [session |-> 0, endpoint |-> "", token |-> None, bearer |-> None,
     invalidated_before |-> {}, status |-> 0, outcome |-> "none",
     error |-> [status_code |-> 0, endpoint |-> ""], token_after |-> None]
NoAPIError == [status_code |-> 0, endpoint |-> ""]
APIError(status_code, endpoint) ==
    [status_code |-> status_code, endpoint |-> endpoint]

ApiInit ==
    /\ auth_token = [s \in Sessions |-> None]
    /\ authorization = None
    /\ rpc = [s \in Sessions |-> "idle"]
    /\ rcall = [s \in Sessions |-> [endpoint |-> "", token |-> None]]
    /\ rlast = NoRequest
    /\ invalidated = [s \in Sessions |-> {}]
    /\ issued = 0

\* a login stores a newly issued token in the session
StoreToken(s) ==
    /\ rpc[s] = "idle"
    /\ issued < MaxTokens
    /\ issued' = issued + 1
    /\ auth_token' = [auth_token EXCEPT ![s] = Some(issued + 1)]
    /\ invalidated' = [invalidated EXCEPT ![s] = {}]
    /\ UNCHANGED <<authorization, rpc, rcall, rlast>>
    /\ ApiFrame

\* token = self._get_auth_token(); if token: self.session.headers[...] = ...
set_authorization(headers, token) == IF token # None THEN token ELSE headers

PrepareRequest(s, endpoint) ==
    /\ rpc[s] = "idle"
    /\ rpc' = [rpc EXCEPT ![s] = "prepared"]
    /\ rcall' = [rcall EXCEPT ![s] = [endpoint |-> endpoint, token |-> auth_token[s]]]
    /\ authorization' = set_authorization(authorization, auth_token[s])
    /\ UNCHANGED <<auth_token, rlast, invalidated, issued>>
    /\ ApiFrame

\* self.session.get/post/put/delete(...) and the handling of the response
SendRequest(s, status) ==
    /\ rpc[s] = "prepared"
    /\ rpc' = [rpc EXCEPT ![s] = "idle"]
    /\ LET expired == status = Unauthorized
           cleared == IF expired THEN None ELSE auth_token[s]
       IN /\ auth_token' = [auth_token EXCEPT ![s] = cleared]
          /\ invalidated' =
               [invalidated EXCEPT ![s] = IF expired THEN @ \cup auth_token[s] ELSE @]
          /\ rlast' =
               [session |-> s, endpoint |-> rcall[s].endpoint,
                token |-> rcall[s].token, bearer |-> authorization,
                invalidated_before |-> invalidated[s], status |-> status,
                outcome |-> IF status >= 400 THEN "APIError" ELSE "returned",
                error |-> IF status >= 400 THEN APIError(status, rcall[s].endpoint)
                          ELSE NoAPIError,
                token_after |-> cleared]
    /\ UNCHANGED <<authorization, rcall, issued>>
    /\ ApiFrame

\* requests.exceptions.Timeout / ConnectionError: nothing came back
RequestFails(s, status) ==
    /\ rpc[s] = "prepared"
    /\ rpc' = [rpc EXCEPT ![s] = "idle"]
    /\ rlast' =
         [session |-> s, endpoint |-> rcall[s].endpoint,
          token |-> rcall[s].token, bearer |-> authorization,
          invalidated_before |-> invalidated[s], status |-> 0,
          outcome |-> "APIError",
          error |-> APIError(status, rcall[s].endpoint),
          token_after |-> auth_token[s]]
    /\ UNCHANGED <<auth_token, authorization, rcall, invalidated, issued>>
    /\ ApiFrame

ApiNext ==
    \/ \E s \in Sessions : StoreToken(s)
    \/ \E s \in Sessions, e \in Endpoints : PrepareRequest(s, e)
    \/ \E s \in Sessions, status \in StatusCodes : SendRequest(s, status)
    \/ \E s \in Sessions, status \in {408, 503} : RequestFails(s, status)

----------------------------------------------------------------------------
(* database.py: create_project calls of several sessions on the one module- *)
(* level db object.  Each call is execute_non_query (connect, INSERT,       *)
(* commit, close) followed by execute_query (connect, SELECT                *)
(* last_insert_rowid(), close); calls of different sessions interleave.     *)
(* A backend connection is a DBAPI connection; StaticPool hands the single  *)
(* one it owns to every checkout, QueuePool hands out one nobody holds.     *)

Callers == 1..NumCallers
Conns == 1..NumCallers
DatabaseUrls == {"sqlite", "postgresql"}
poolclass(url) == IF url = "sqlite" THEN "StaticPool" ELSE "QueuePool"
NoConn == 0
NoRow == 0
NotReturned == [kind |-> "none", id |-> NoRow]
ReturnedId(id) == [kind |-> "returned", id |-> id]
RaisedError(class) == [kind |-> class, id |-> NoRow]

PoolInit ==
    /\ database_url \in DatabaseUrls
    /\ ppc = [c \in Callers |-> "idle"]
    /\ pconn = [c \in Callers |-> NoConn]
    /\ uncommitted = [k \in Conns |-> {}]
    /\ projects = {}
    /\ last_insert_rowid = [k \in Conns |-> NoRow]
    /\ pinserted = [c \in Callers |-> NoRow]
    /\ preturned = [c \in Callers |-> NotReturned]

\* the default: DATABASE_URL is not set
PoolDefault == PoolInit /\ database_url = "sqlite"

Held == {pconn[c] : c \in Callers} \ {NoConn}
\* self.engine.connect(): the connections a checkout can be given
checkout(url, held) ==
    IF poolclass(url) = "StaticPool" THEN {1} ELSE Conns \ held

MaxOf(S) == IF S = {} THEN 0 ELSE CHOOSE m \in S : \A n \in S : n <= m
\* SQLite: the rowid of a new row is one more than the largest in the table
NewRowid(k) ==
    MaxOf({r[1] : r \in projects \cup uncommitted[k]}) + 1

\* create_project: required fields and the name's length are refused
\* before any query
CreateRefused(c) ==
    /\ ppc[c] = "idle"
    /\ ppc' = [ppc EXCEPT ![c] = "done"]
    /\ preturned' = [preturned EXCEPT ![c] = RaisedError("ValueError")]
    /\ UNCHANGED <<database_url, pconn, uncommitted, projects,
                   last_insert_rowid, pinserted>>
    /\ PoolFrame

\* execute_non_query: with self.get_connection() as conn
InsertConnect(c) ==
    /\ ppc[c] = "idle"
    /\ \E k \in checkout(database_url, Held) :
          pconn' = [pconn EXCEPT ![c] = k]
    /\ ppc' = [ppc EXCEPT ![c] = "insert_connected"]
    /\ UNCHANGED <<database_url, uncommitted, projects, last_insert_rowid,
                   pinserted, preturned>>
    /\ PoolFrame

\* conn.execute(text(query), params): the INSERT, on SQLite
InsertExecute(c) ==
    /\ ppc[c] = "insert_connected"
    /\ database_url = "sqlite"
    /\ LET k == pconn[c]
           rowid == NewRowid(k)
       IN /\ uncommitted' = [uncommitted EXCEPT ![k] = @ \cup {<<rowid, c>>}]
          /\ last_insert_rowid' = [last_insert_rowid EXCEPT ![k] = rowid]
          /\ pinserted' = [pinserted EXCEPT ![c] = rowid]
    /\ ppc' = [ppc EXCEPT ![c] = "inserted"]
    /\ UNCHANGED <<database_url, pconn, projects, preturned>>
    /\ PoolFrame

\* conn.execute raises: PostgreSQL has no datetime('now'); get_connection
\* rolls back and closes, execute_non_query raises DatabaseError
InsertRaises(c) ==
    /\ ppc[c] = "insert_connected"
    /\ database_url = "postgresql"
    /\ uncommitted' = [uncommitted EXCEPT ![pconn[c]] = {}]
    /\ pconn' = [pconn EXCEPT ![c] = NoConn]
    /\ ppc' = [ppc EXCEPT ![c] = "done"]
    /\ preturned' = [preturned EXCEPT ![c] = RaisedError("DatabaseError")]
    /\ UNCHANGED <<database_url, projects, last_insert_rowid, pinserted>>
    /\ PoolFrame

\* conn.commit(): everything pending on the backend connection is committed
InsertCommit(c) ==
    /\ ppc[c] = "inserted"
    /\ projects' = projects \cup uncommitted[pconn[c]]
    /\ uncommitted' = [uncommitted EXCEPT ![pconn[c]] = {}]
    /\ ppc' = [ppc EXCEPT ![c] = "committed"]
    /\ UNCHANGED <<database_url, pconn, last_insert_rowid, pinserted, preturned>>
    /\ PoolFrame

\* finally: conn.close(); the pool resets the connection it gets back with a
\* rollback
InsertClose(c) ==
    /\ ppc[c] = "committed"
    /\ uncommitted' = [uncommitted EXCEPT ![pconn[c]] = {}]
    /\ pconn' = [pconn EXCEPT ![c] = NoConn]
    /\ ppc' = [ppc EXCEPT ![c] = "insert_closed"]
    /\ UNCHANGED <<database_url, projects, last_insert_rowid, pinserted, preturned>>
    /\ PoolFrame

\* execute_query: with self.get_connection() as conn
SelectConnect(c) ==
    /\ ppc[c] = "insert_closed"
    /\ \E k \in checkout(database_url, Held) :
          pconn' = [pconn EXCEPT ![c] = k]
    /\ ppc' = [ppc EXCEPT ![c] = "select_connected"]
    /\ UNCHANGED <<database_url, uncommitted, projects, last_insert_rowid,
                   pinserted, preturned>>
    /\ PoolFrame

\* conn.execute("SELECT last_insert_rowid() as id"), fetchall, close, and
\* create_project's return result[0]['id']
SelectReturn(c) ==
    /\ ppc[c] = "select_connected"
    /\ preturned' = [preturned EXCEPT ![c] = ReturnedId(last_insert_rowid[pconn[c]])]
    /\ uncommitted' = [uncommitted EXCEPT ![pconn[c]] = {}]
    /\ pconn' = [pconn EXCEPT ![c] = NoConn]
    /\ ppc' = [ppc EXCEPT ![c] = "done"]
    /\ UNCHANGED <<database_url, projects, last_insert_rowid, pinserted>>
    /\ PoolFrame

PoolNext ==
    \/ \E c \in Callers : CreateRefused(c)
    \/ \E c \in Callers : InsertConnect(c)
    \/ \E c \in Callers : InsertExecute(c)
    \/ \E c \in Callers : InsertRaises(c)
    \/ \E c \in Callers : InsertCommit(c)
    \/ \E c \in Callers : InsertClose(c)
    \/ \E c \in Callers : SelectConnect(c)
    \/ \E c \in Callers : SelectReturn(c)

----------------------------------------------------------------------------
(* A run of login attempts for one identity, all against the same app and   *)
(* within the same minute, with the outcome of every attempt kept.          *)

RunStart == 0
TryUser == "admin"

TryInit ==
    /\ tapp \in {"auth", "cloud"}
    /\ tusers = InitialUsers
    /\ outcomes = <<>>

TryDefault == TryInit /\ tapp = "cloud"

Outcome(result) == IF result # None THEN "success" ELSE "failure"

\* cloud_app.login_user(username, password)
TryLoginUser(password) ==
    /\ tapp = "cloud"
    /\ Len(outcomes) < MaxAttempts
    /\ tusers' = login_user_db(tusers, TryUser, password, RunStart)
    /\ outcomes' = Append(outcomes,
                     Outcome(login_user_result(tusers, TryUser, password, RunStart)))
    /\ UNCHANGED tapp
    /\ TryFrame

\* SimpleAuthenticator.authenticate(username, password): what it writes goes
\* to a table of its own that is dropped on return
TryAuthenticate(password) ==
    /\ tapp = "auth"
    /\ Len(outcomes) < MaxAttempts
    /\ \E s1 \in Salts, s2 \in Salts :
          outcomes' = Append(outcomes,
                        Outcome(authenticate_result(TryUser, password, s1, s2, RunStart)))
    /\ UNCHANGED <<tapp, tusers>>
    /\ TryFrame

TryNext ==
    \/ \E password \in Passwords : TryLoginUser(password)
    \/ \E password \in Passwords : TryAuthenticate(password)

----------------------------------------------------------------------------
(* Specifications *)

\* sequential authentication and lockout
Init ==
    /\ AuthInit /\ SessInit /\ OutInit /\ LoadInit /\ fallback_local /\ ConcInit
    /\ HashInit /\ QueryInit /\ FormInit /\ ValidInit
    /\ StmtInit /\ ApiInit /\ PoolDefault /\ TryDefault
Next == AuthNext
Spec == Init /\ [][Next]_vars

\* script runs of the auth.py app
SessionSpec == Init /\ [][SessionNext]_vars

\* session checks and logouts on any session state
AnyStart ==
    /\ AuthInit /\ AnyInit /\ LoadInit /\ fallback_local /\ ConcInit
    /\ HashInit /\ QueryInit /\ FormInit /\ ValidInit
    /\ StmtInit /\ ApiInit /\ PoolDefault /\ TryDefault
AnySessionSpec == AnyStart /\ [][AnyNext]_vars

\* the hybrid loader
LoaderStart ==
    /\ AuthInit /\ SessInit /\ OutInit /\ LoadInit /\ ConcInit
    /\ HashInit /\ QueryInit /\ FormInit /\ ValidInit
    /\ StmtInit /\ ApiInit /\ PoolDefault /\ TryDefault
LoaderSpec == LoaderStart /\ [][LoadNext]_vars

\* concurrent failed attempts
ConcSpec == Init /\ [][ConcNext]_vars

\* password hashing and verification
HashSpec == Init /\ [][HashNext]_vars

\* the query layer
QuerySpec == Init /\ [][QueryNext]_vars

\* form submissions
FormSpec == Init /\ [][FormNext]_vars

\* validator calls
ValidSpec == Init /\ [][ValidNext]_vars

\* statements handed to the backend
StmtSpec == Init /\ [][StmtNext]_vars

\* requests of the shared API client
ApiSpec == Init /\ [][ApiNext]_vars

\* concurrent create_project calls, under either database URL
PoolStart ==
    /\ AuthInit /\ SessInit /\ OutInit /\ LoadInit /\ fallback_local /\ ConcInit
    /\ HashInit /\ QueryInit /\ FormInit /\ ValidInit /\ StmtInit /\ ApiInit
    /\ PoolInit /\ TryDefault
PoolSpec == PoolStart /\ [][PoolNext]_vars

\* runs of login attempts, against either app
TryStart ==
    /\ AuthInit /\ SessInit /\ OutInit /\ LoadInit /\ fallback_local /\ ConcInit
    /\ HashInit /\ QueryInit /\ FormInit /\ ValidInit /\ StmtInit /\ ApiInit
    /\ PoolDefault /\ TryInit
TrySpec == TryStart /\ [][TryNext]_vars

----
(* Properties: failed-login lockout (Spec, ConcSpec) *)

Attempted == last.app # "none" /\ last.username \in Usernames
WasLocked == Attempted /\ last.pre_lu # NULL
CredNow == Cred(last.app, last.username)

\* C1: with threshold 3, the third consecutive failed attempt for an existing
\* identity locks it until the time of that attempt + 15 minutes, and an
\* attempt with the correct password made before locked_until is rejected
\* and does not reset failed_attempts.
C1_ThreeFailuresLock ==
    /\ (Attempted /\ last.password # AdminPassword /\ streak[last.app] = 3)
          => /\ CredNow.locked_until = last.at + 15
             /\ last.at < CredNow.locked_until
    /\ (WasLocked /\ last.at < last.pre_lu /\ last.password = AdminPassword)
          => /\ last.result = None
             /\ CredNow.failed_attempts = last.pre_fa

\* C2: an attempt, with whatever password, for an identity that is locked
\* with now < locked_until is rejected and leaves the identity's
\* failed_attempts and locked_until as they were.
C2_LockedAttemptRejected ==
    (WasLocked /\ last.at < last.pre_lu)
        => /\ last.result = None
           /\ CredNow.failed_attempts = last.pre_fa
           /\ CredNow.locked_until = last.pre_lu

C2_Witness ==
    /\ WasLocked
    /\ last.at < last.pre_lu
    /\ last.password = AdminPassword
    /\ last.pre_fa = 3

\* C3: for an identity that was locked, the first attempt at a time
\* now >= locked_until with the correct password succeeds and leaves
\* failed_attempts = 0 and locked_until cleared.
C3_CorrectPasswordAfterWindow ==
    (WasLocked /\ last.at >= last.pre_lu /\ last.password = AdminPassword)
        => /\ last.result # None
           /\ CredNow.failed_attempts = 0
           /\ CredNow.locked_until = NULL

\* C4: for an identity that was locked, the first attempt after the window
\* with a wrong password fails and leaves failed_attempts = 1, so that the
\* identity is active and not locked again.  (Stated for attempts strictly
\* after locked_until; the attempt at locked_until itself is C3's case.)
C4_WrongPasswordAfterWindow ==
    (WasLocked /\ last.at > last.pre_lu /\ last.password # AdminPassword)
        => /\ last.result = None
           /\ CredNow.failed_attempts = 1
           /\ CredNow.locked_until = NULL

AllDone(app) ==
    IF app = "cloud" THEN \A p \in Procs : cpc[p] = "done"
    ELSE \A p \in Procs : apc[p] = "done"

\* C5: when NumProcs failed attempts for one identity have run concurrently,
\* failed_attempts is NumProcs, or a value the lockout capped it at (at least
\* the threshold) when the threshold is below NumProcs: no increment is lost.
C5_NoLostIncrement ==
    \A app \in {"auth", "cloud"} :
        AllDone(app) =>
            LET fa == Cred(app, ConcUser).failed_attempts IN
            \/ fa = NumProcs
            \/ /\ 3 < NumProcs
               /\ fa >= 3
               /\ fa <= NumProcs

\* C27: in every reachable credential state, for every identity,
\* failed_attempts >= 0 and locked_until is set iff failed_attempts >= 3; a
\* failure that leaves the counter below 3 does not set locked_until.  The
\* table an authenticate call writes to (auth.py) is held to the same.
C27_LockedIffThreshold ==
    /\ \A app \in {"auth", "cloud"}, u \in Usernames :
          /\ Cred(app, u).failed_attempts >= 0
          /\ Cred(app, u).locked_until # NULL <=> Cred(app, u).failed_attempts >= 3
    /\ Attempted =>
          /\ last.local_fa >= 0
          /\ last.local_lu # NULL <=> last.local_fa >= 3
          /\ (last.result = None /\ CredNow.failed_attempts < 3)
                => CredNow.locked_until = NULL
C27_Witness ==
    /\ Attempted
    /\ last.app = "cloud"
    /\ last.result = None
    /\ last.pre_fa = 2
    /\ CredNow.failed_attempts = 3
    /\ CredNow.locked_until = last.at + 15

SecretFields == {"password_hash", "salt"}

\* C15: the value a successful authenticate (auth.py) or login_user
\* (cloud_app.py) returns, which the login form stores in the session as
\* "user", has neither a password_hash nor a salt field.
C15_PublicViewOnly ==
    (Attempted /\ last.result # None)
        => \A user \in last.result : (DOMAIN user) \cap SecretFields = {}

----------------------------------------------------------------------------
(* Properties: sessions (AnySessionSpec, SessionSpec) *)

HadLoginTime == run.entry_login[1] # "absent"
Age == run.at - run.entry_login[2]

\* C6: the validity check returns true iff a login_time is present and
\* now - login_time < 120 minutes: valid at T+119, invalid at T+120 and at
\* T+121, invalid without login_time.
C6_SessionValidity ==
    run.outcome = "check" =>
        /\ run.valid <=> (HadLoginTime /\ Age < 120)
        /\ (HadLoginTime /\ Age = 119) => run.valid
        /\ (HadLoginTime /\ Age \in {120, 121}) => ~run.valid
        /\ ~HadLoginTime => ~run.valid

C6_Witness ==
    /\ run.outcome = "check"
    /\ HadLoginTime
    /\ Age = 120
    /\ ~run.valid

RanMain ==
    run.outcome \in {"login_form", "login_rerun", "expired_rerun",
                     "logout_rerun", "page"}
TimedOutAtEntry == run.entry_auth /\ ~(HadLoginTime /\ Age < 120)

\* C7: on every access through require_auth, with no session the login is
\* demanded and no page is dispatched; with a timed-out session the session
\* is destroyed, the script restarts unauthenticated and no page is
\* dispatched; a page is dispatched only for a session that is present and
\* not timed out; no access changes the login_time of a session it keeps.
C7_RequireAuth ==
    RanMain =>
        /\ ~run.entry_auth => run.outcome \in {"login_form", "login_rerun"}
        /\ TimedOutAtEntry =>
              /\ run.outcome = "expired_rerun"
              /\ (DOMAIN session_state) \cap AuthKeys = {}
              /\ rerun_requested
        /\ run.outcome = "page" => (run.entry_auth /\ ~TimedOutAtEntry)
        /\ (run.entry_auth /\ "login_time" \in DOMAIN session_state)
              => session_state["login_time"] = run.entry_login
        /\ (~run.entry_auth /\ run.outcome = "login_form")
              => ~IsAuthenticated(session_state)

C7_Witness ==
    /\ run.outcome = "expired_rerun"
    /\ Age = 120
    /\ (DOMAIN session_state) \cap AuthKeys = {}

\* C8: after logout, whatever the session state was (valid, timed out,
\* partly populated or empty), none of authenticated, user and login_time
\* is present; cloud_app's logout leaves no user and no logged_in either.
C8_LogoutDestroysSession ==
    /\ logged_out.app = "auth"
          => (DOMAIN session_state) \cap {"authenticated", "user", "login_time"} = {}
    /\ logged_out.app = "cloud"
          => (DOMAIN cloud_session)
                \cap {"authenticated", "user", "login_time", "logged_in"} = {}

C8_Witness ==
    /\ logged_out.app = "auth"
    /\ logged_out.before \cap AuthKeys = {"user", "login_time"}
    /\ "navigation" \in DOMAIN session_state

\* C28: in every state reached through login_form, logout and
\* require_auth, authenticated, user and login_time are present together or
\* absent together, authenticated = True comes with a user and a
\* login_time, and a protected page is dispatched only in such a state.
C28_SessionFieldsTogether ==
    /\ (DOMAIN session_state) \cap AuthKeys \in {{}, AuthKeys}
    /\ IsAuthenticated(session_state)
          => {"user", "login_time"} \subseteq DOMAIN session_state
    /\ run.outcome = "page"
          => /\ run.entry_auth /\ HadLoginTime
             /\ IsAuthenticated(session_state)
             /\ AuthKeys \subseteq DOMAIN session_state
C28_Witness ==
    /\ run.outcome = "page"
    /\ IsAuthenticated(session_state)
    /\ session_state["user"].username = "admin"
    /\ session_state["login_time"] = <<"datetime", 0>>
    /\ now = 119

UnknownNames == AttemptNames \ Usernames
WrongPasswords == Passwords \ {AdminPassword}
FailedSubmit ==
    /\ run.input.kind = "submit"
    /\ ~run.entry_auth
    /\ run.input.password # <<>>
    /\ \/ run.input.username \in UnknownNames
       \/ run.input.username \in Usernames /\ run.input.password \in WrongPasswords

\* C16: authenticate (auth.py) ends every attempt by returning; an attempt
\* for an unknown identity and an attempt for a known identity with a wrong
\* password return the same value, None, and make login_form show the same
\* message and leave the same session: with the same password at the same
\* time, the two attempts differ in nothing the caller sees.
C16_UnknownLikeWrongPassword ==
    /\ FailedSubmit
          => /\ run.outcome = "login_form"
             /\ run.error = "Invalid username or password"
             /\ ~IsAuthenticated(session_state)
    /\ \A ghost \in UnknownNames, known \in Usernames, p \in WrongPasswords :
         \A s1 \in Salts, s2 \in Salts, s3 \in Salts, s4 \in Salts :
            /\ authenticate_result(ghost, p, s1, s2, now) = None
            /\ authenticate_result(known, p, s1, s2, now) = None
            /\ login_form_error(ghost, p, s1, s2, s3, s4, now)
                  = login_form_error(known, p, s1, s2, s3, s4, now)
            /\ login_form(session_state, ghost, p, s1, s2, now)
                  = login_form(session_state, known, p, s1, s2, now)

C16_Witness ==
    /\ FailedSubmit
    /\ run.input.username \in UnknownNames
    /\ run.outcome = "login_form"
    /\ run.error = "Invalid username or password"

----------------------------------------------------------------------------
(* Properties: hybrid loader (LoaderSpec) *)

Happened(kind) == \E i \in 1..Len(ltrace) : ltrace[i][1] = kind
IndexOf(kind) == CHOOSE i \in 1..Len(ltrace) : ltrace[i][1] = kind
Count(kind) == Cardinality({i \in 1..Len(ltrace) : ltrace[i][1] = kind})
InFlight == lpc # "idle"

\* C9: with remote enabled and a remote accessor that returns normally, one
\* loader invocation calls remote exactly once, never calls local, and
\* returns what remote returned.
C9_RemoteSuccess ==
    (InFlight /\ api_integration_enabled = {TRUE} /\ ~Happened("remote_raise"))
        => /\ Count("remote_call") = 1
           /\ remote_calls = 1
           /\ Count("local_call") = 0
           /\ local_calls = 0
           /\ Happened("remote_return")
                 => /\ lpc = "returned"
                    /\ lresult = Return(ltrace[IndexOf("remote_return")][2])

C9_Witness ==
    /\ lpc = "returned"
    /\ api_integration_enabled = {TRUE}
    /\ Happened("remote_return")
    /\ lresult = Return("api_rows_a")

\* C10: with remote enabled, remote raising and local fallback allowed, one
\* loader invocation calls remote exactly once, calls local exactly once and
\* only after the remote call has ended, and returns local's result.
C10_FallbackAfterRemoteFailure ==
    (InFlight /\ api_integration_enabled = {TRUE} /\ fallback_local
       /\ Happened("remote_raise"))
        => /\ Count("remote_call") = 1
           /\ remote_calls = 1
           /\ Count("local_call") = 1
           /\ local_calls = 1
           /\ IndexOf("remote_call") < IndexOf("remote_raise")
           /\ IndexOf("remote_raise") < IndexOf("local_call")
           /\ Happened("local_return")
                 => /\ lpc = "returned"
                    /\ lresult = Return(ltrace[IndexOf("local_return")][2])

C10_Witness ==
    /\ lpc = "returned"
    /\ api_integration_enabled = {TRUE}
    /\ fallback_local
    /\ Happened("remote_raise")
    /\ lresult = Return("local_rows")

\* C11: with remote enabled, remote raising and local fallback not allowed,
\* the loader raises the remote accessor's own failure to its caller, returns
\* no value, and never calls local.
C11_RemoteFailurePropagates ==
    (InFlight /\ api_integration_enabled = {TRUE} /\ ~fallback_local
       /\ Happened("remote_raise"))
        => /\ lpc = "raised"
           /\ lresult = Raise(ltrace[IndexOf("remote_raise")][2])
           /\ Count("local_call") = 0
           /\ local_calls = 0

ProducedByAccessor(v) ==
    \E i \in 1..Len(ltrace) :
        /\ ltrace[i][1] \in {"remote_return", "local_return"}
        /\ ltrace[i][2] = v

\* C12: when remote raises and local raises during the fallback, the loader
\* raises to its caller; and every value a loader invocation returns, under
\* any policy and any outcome of the accessors, is a value that one of the
\* two accessors returned in that invocation.
C12_RealDataOrRaise ==
    /\ (Happened("remote_raise") /\ Happened("local_raise")) => lpc = "raised"
    /\ lpc = "returned" =>
          /\ lresult.kind = "return"
          /\ ProducedByAccessor(lresult.value)

\* C13: with remote disabled, whatever fallback_local is, one loader
\* invocation never calls remote, calls local exactly once, and returns
\* what local returned.
C13_RemoteDisabledUsesLocal ==
    (InFlight /\ ~RemoteEnabled(api_integration_enabled))
        => /\ Count("remote_call") = 0
           /\ remote_calls = 0
           /\ Count("local_call") = 1
           /\ local_calls = 1
           /\ lpc = "returned"
                 => /\ Happened("local_return")
                    /\ lresult = Return(ltrace[IndexOf("local_return")][2])

----------------------------------------------------------------------------
(* Properties: password hashing (HashSpec) *)

Hashed == hout.app # "none"
ExplicitSalt == hout.app = "auth" /\ hout.salt_arg # None

RECURSIVE StripNul(_)
StripNul(s) ==
    IF s = <<>> THEN s
    ELSE IF s[Len(s)] = 0 THEN StripNul(SubSeq(s, 1, Len(s) - 1))
    ELSE s

Deterministic ==
    /\ ExplicitSalt => /\ hout.first = hout.second
                       /\ Some(hout.first[2]) = hout.salt_arg
    /\ hout.app = "cloud" => hout.first = hout.second

\* C14, as claimed: verifying P against hash(P, S) succeeds, verifying any
\* P' # P against it fails, and hashing with an explicit salt is
\* deterministic and returns that salt.
C14_VerifyRejectsEveryOther ==
    Hashed =>
        /\ hout.verify_same
        /\ hout.candidate # hout.password => ~hout.verify_other
        /\ Deterministic

\* C14, amended: verifying P against hash(P, S) succeeds; verifying P' fails
\* whenever P' differs from P in more than trailing NUL characters (for
\* passwords of at most 64 bytes); hashing with an explicit salt is
\* deterministic and returns that salt.
C14_HashVerifyRoundTrip ==
    Hashed =>
        /\ hout.verify_same
        /\ StripNul(hout.candidate) # StripNul(hout.password)
              => ~hout.verify_other
        /\ Deterministic

C14_Witness ==
    /\ ExplicitSalt
    /\ hout.password = <<97, 233>>
    /\ hout.candidate = <<97>>
    /\ hout.verify_same
    /\ ~hout.verify_other

----------------------------------------------------------------------------
(* Properties: the query layer (QuerySpec) *)

CallOver == qpc \in {"returned", "raised"}

\* C17: a call of execute_query or execute_non_query holds at most one
\* connection, and when it has finished, by returning or by raising
\* at whatever step, no connection is checked out; nor is one between calls.
C17_ConnectionsReleased ==
    /\ checked_out \in {0, 1}
    /\ (CallOver \/ qpc = "idle") => checked_out = 0
    /\ checked_out = 1 => qpc \in {"connected", "executed", "committed"}

C17_Witness ==
    /\ qpc = "raised"
    /\ qcall.failed_at = "executed"
    /\ qcalls = MaxCalls
    /\ checked_out = 0

\* C18: when execute_non_query returns, the effect of its statement is
\* stored; when it raises, the stored data is what it was before the call;
\* either way nothing is left uncommitted on the connection, and the stored
\* data changes only at the commit of a call that then returns.
C18_CommitIffReturn ==
    qcall.method = "execute_non_query" =>
        /\ qpc = "returned"
              => /\ stored = qbefore \cup {qcall.statement}
                 /\ pending = {}
        /\ qpc = "raised" => /\ stored = qbefore
                             /\ pending = {}
        /\ qpc \in {"connecting", "connected", "executed"} => stored = qbefore

C18_Witness ==
    /\ qcall.method = "execute_non_query"
    /\ qpc = "raised"
    /\ qcall.failed_at = "executed"
    /\ qcall.statement \notin stored
    /\ stored # {}

Mentions(text, raw) == \E i \in 1..Len(text) : text[i] = raw

\* C19: when a call fails on a backend fault, the backend's own message is
\* in the log, but neither in the message of the error the call raises nor
\* in any text the page shows for it.
C19_RawMessageOnlyInLog ==
    qpc = "raised" =>
        \A raw \in RawMessages :
            /\ ~Mentions(qresult.message, raw)
            /\ \A t \in shown : ~Mentions(t, raw)

----------------------------------------------------------------------------
(* Properties: forms (FormSpec) *)

\* a parameter whose value comes from what the user submitted
FromSubmission(param) == param.by \in {"validator", "form", "lookup"}

\* C20: when a form submission executes its statement, every submitted
\* field has passed a validator, and every bound parameter that carries
\* submitted data carries the value a validator produced.
C20_ValidateThenQuery ==
    fout.executed =>
        /\ fout.validated = DOMAIN fout.fields
        /\ \A p \in DOMAIN fout.params :
              FromSubmission(fout.params[p]) => fout.params[p].by = "validator"

----------------------------------------------------------------------------
(* Properties: validators (ValidSpec) *)

NameChecks ==
    {"validate_project_name", "create_project", "show_create_project_form",
     "cloud show_create_project_form"}
OverNameChars(name) == \A i \in 1..Len(name) : NameChar(name[i])

\* C21: a project name of 256 characters is rejected, and a non-empty name
\* made of allowed characters only is accepted exactly when it has at most
\* 255 characters.
C21_NameAcceptedIffWithinLimit ==
    vout.validator \in NameChecks =>
        LET name == Str(vout.input) IN
        /\ Len(name) = max_name_length + 1 => ~vout.result.ok
        /\ (name # <<>> /\ OverNameChars(name)) =>
               (vout.result.ok <=> Len(name) <= max_name_length)

EnumValidators ==
    {"validate_project_status", "validate_period", "validate_category"}
AllowedOf(validator) ==
    CASE validator = "validate_project_status" -> valid_statuses
      [] validator = "validate_period" -> valid_periods
      [] validator = "validate_category" -> valid_categories
CaseVariantOf(s, w) == lower(s) = lower(w)

\* C26: an enumerated-field validator (status, category, period) rejects an
\* absent or empty value, accepts every case variant of an allowed value
\* and returns the allowed value itself, and rejects every other value with
\* an error that lists the allowed set.
C26_EnumRequiredCaseNormalizedClosed ==
    vout.validator \in EnumValidators =>
        LET allowed == AllowedOf(vout.validator) IN
        IF Falsy(vout.input) THEN ~vout.result.ok
        ELSE LET s == Str(vout.input) IN
             /\ \A w \in Range(allowed) :
                    CaseVariantOf(s, w) =>
                        vout.result.ok /\ vout.result.value = w
             /\ (\A w \in Range(allowed) : ~CaseVariantOf(strip(s), w)) =>
                    ~vout.result.ok /\ vout.result.allowed = allowed

----------------------------------------------------------------------------
(* Properties: statement texts (StmtSpec) *)

UpdateColumns == {"name", "description", "status"}
ColumnLists ==
    {cs \in UNION {[1..n -> UpdateColumns] : n \in 1..Cardinality(UpdateColumns)} :
        \A i \in 1..Len(cs), j \in 1..Len(cs) : i # j => cs[i] # cs[j]}
UpdateTemplate(cs) ==
    <<"UPDATE projects SET ">>
    \o join([i \in 1..Len(cs) |-> <<cs[i], " = :", cs[i]>>]
            \o << <<"updated_at = datetime('now')">> >>)
    \o <<" WHERE id = :project_id">>
AssessmentTables == {"tcfd", "csrd", "gri", "sasb"}
Catalog ==
    {UpdateTemplate(cs) : cs \in ColumnLists}
    \cup {<<InsertProject>>}
    \cup {<<"INSERT OR REPLACE INTO ", t, InsertAssessmentTail>> :
             t \in AssessmentTables}

\* C22: whatever the caller supplies, the statement text handed to the
\* backend is one of a fixed finite set of templates (for update_project the
\* SET columns come from name, description, status, updated_at only), and
\* what the caller supplied is bound to the statement's placeholders.
C22_StatementFromCatalog ==
    sout.outcome = "executed" =>
        /\ sout.statement \in Catalog
        /\ sout.placeholders = {b[1] : b \in sout.bound}
C22_Witness ==
    /\ sout.op = "update_project"
    /\ sout.outcome = "executed"
    /\ \E i \in 1..Len(sout.given[2]) : sout.given[2][i] \notin UpdateColumns
    /\ sout.given[3] = Hostile
    /\ <<"description", Hostile>> \in sout.bound

----------------------------------------------------------------------------
(* Properties: the API client (ApiSpec) *)

\* C23: a request answered with status 401 removes the token from the
\* session and raises an APIError with status 401 and the endpoint; a token
\* removed this way is not sent on any later request of that session until
\* a new login has stored a token.
C23_UnauthorizedInvalidatesToken ==
    rlast.outcome # "none" =>
        /\ rlast.status = Unauthorized =>
               /\ rlast.token_after = None
               /\ rlast.outcome = "APIError"
               /\ rlast.error = APIError(Unauthorized, rlast.endpoint)
        /\ rlast.bearer \cap rlast.invalidated_before = {}

\* C30: every request the shared client sends carries as bearer credential
\* exactly the token of the session it is made for; a request for a session
\* without a token carries no Authorization header.
C30_BearerIsSessionToken ==
    rlast.outcome # "none" => rlast.bearer = rlast.token

----------------------------------------------------------------------------
(* Properties: concurrent calls on the shared database object (PoolSpec) *)

\* C24: two execute_query / execute_non_query calls that overlap in time
\* never hold the same backend connection at the same moment.
C24_ExclusiveCheckout ==
    \A a \in Callers, b \in Callers :
        (a # b /\ pconn[a] # NoConn /\ pconn[b] # NoConn) => pconn[a] # pconn[b]

\* C29: create_project returns the id of the row that this very call
\* inserted, whatever other create_project calls do between its INSERT and
\* its SELECT last_insert_rowid().
C29_ReturnsOwnRowid ==
    \A c \in Callers :
        preturned[c].kind = "returned" => preturned[c].id = pinserted[c]

----------------------------------------------------------------------------
(* Properties: runs of login attempts (TrySpec) *)

TryCred == IF tapp = "cloud" THEN tusers[TryUser] ELSE AuthCred(TryUser)
RECURSIVE FailuresAtEnd(_)
FailuresAtEnd(os) ==
    IF os = <<>> \/ os[Len(os)] = "success" THEN 0
    ELSE 1 + FailuresAtEnd(SubSeq(os, 1, Len(os) - 1))

\* C25: a successful authentication of an active identity resets
\* failed_attempts to 0, so that failures made before the success do not
\* count: the identity is locked only when 3 consecutive failures have been
\* made since the last success.
C25_SuccessResetsCounter ==
    /\ (outcomes # <<>> /\ outcomes[Len(outcomes)] = "success")
          => TryCred.failed_attempts = 0 /\ TryCred.locked_until = NULL
    /\ TryCred.locked_until # NULL => FailuresAtEnd(outcomes) >= 3
    /\ TryCred.failed_attempts <= FailuresAtEnd(outcomes)
C25_Witness ==
    /\ tapp = "cloud"
    /\ outcomes = <<"failure", "failure", "success", "failure", "failure">>
    /\ TryCred.failed_attempts = 2
    /\ TryCred.locked_until = NULL

====
